---------------------------- MODULE Spec2Model ----------------------------
(***************************************************************************)
(* A model of the compio-ws client: the receive state machine of           *)
(* Client::read_frame_inner / Client::ensure_read (src/src/client.rs), the *)
(* send interface Client::write_frame / write_control_frame and its        *)
(* helpers, and the frame codec Frame::encode / Frame::encode_control with *)
(* its masking kernel (src/src/frame.rs).                                  *)
(*                                                                         *)
(* Bytes are the integers 0..255.  A Vec<u8> is a record [data, cap]: its  *)
(* contents and its capacity.  The stream is the environment: `incoming`   *)
(* holds the bytes the peer has sent and the stream has not yet delivered, *)
(* `outgoing` the bytes the stream has accepted from write_all.            *)
(***************************************************************************)
EXTENDS Integers, Sequences, FiniteSets, TLC

VARIABLES
    \* ---- the stream (environment) ----
    incoming,        \* bytes of the peer not yet delivered by the stream
    outgoing,        \* bytes the stream has accepted from write_all, in order
    \* ---- Client fields (client.rs:45-56) ----
    read_buffer,     \* Vec<u8>: [data, cap]
    read_consumed,   \* usize
    write_buffer,    \* Vec<u8>: [data, cap]
    write_rng,       \* SmallRng: the number of values drawn so far from its seed
    \* ---- read_frame_inner's position and locals ----
    pc,              \* "idle" | "header" | "ext16" | "ext64" | "payload"
    pending,         \* TRUE while a read_extend is awaited (buffer handed over)
    taken,           \* the Vec handed to the stream while pending
    b1, b2,          \* the two header bytes of the frame being parsed
    length,          \* the local `length`
    rd_result,       \* what the last read_frame call returned
    \* ---- write_frame's position and locals ----
    wpc,             \* "idle" | "writing"
    dst,             \* the Vec handed to write_all while writing
    wr_result,       \* what the last send call returned
    \* ---- history (ghost) variables, read by the properties only ----
    peer_frames,     \* the frames the peer encoded into the stream, in order
    n_returned,      \* number of frames read_frame has returned so far
    frame_start,     \* read_consumed when the current header was awaited
    read_since_hdr,  \* a read_extend was issued after the header was parsed
    eof_seen,        \* a read_extend of the current call returned 0 bytes
    close_seen,      \* read_frame has returned a Close frame
    failed,          \* an earlier read_frame call returned an error
    rd_history,      \* the frames and violations read_frame returned, in order
    sent,            \* the sends so far: <<[fin, opcode, data, mask, control,
                     \*   res, wrote]>>, res and wrote set when the call returns
    \* ---- the codec exercised on its own (EncSpec) ----
    cpu_simd,        \* the SIMD feature (ssse3 / neon) is detected on this CPU
    enc_in,          \* [fin, opcode, data, mask, dst, control]: one call's inputs
    enc_out          \* dst after the call, or <<-1>> before it

vars == << incoming, outgoing, read_buffer, read_consumed, write_buffer,
           write_rng, pc, pending, taken, b1, b2, length, rd_result, wpc, dst,
           wr_result, peer_frames, n_returned, frame_start, read_since_hdr,
           eof_seen, close_seen, failed, rd_history, sent, cpu_simd, enc_in,
           enc_out >>

readVars  == << incoming, read_buffer, read_consumed, pc, pending, taken, b1,
                b2, length, rd_result, peer_frames, n_returned, frame_start,
                read_since_hdr, eof_seen, close_seen, failed, rd_history >>
writeVars == << outgoing, write_buffer, write_rng, wpc, dst, wr_result, sent >>
encVars   == << cpu_simd, enc_in, enc_out >>

---------------------------------------------------------------------------
(* Bytes and bit operations.                                               *)

Byte == 0..255

\* bit p (a power of two) of a ^ b and of a | b
XorBit(a, b, p) == (((a \div p) + (b \div p)) % 2) * p
OrBit(a, b, p)  == IF ((a \div p) % 2) + ((b \div p) % 2) > 0 THEN p ELSE 0

\* a ^ b on u8
Xor(a, b) ==
    XorBit(a, b, 1) + XorBit(a, b, 2) + XorBit(a, b, 4) + XorBit(a, b, 8)
    + XorBit(a, b, 16) + XorBit(a, b, 32) + XorBit(a, b, 64) + XorBit(a, b, 128)

\* a | b on u8
Or(a, b) ==
    OrBit(a, b, 1) + OrBit(a, b, 2) + OrBit(a, b, 4) + OrBit(a, b, 8)
    + OrBit(a, b, 16) + OrBit(a, b, 32) + OrBit(a, b, 64) + OrBit(a, b, 128)

\* the n big-endian bytes of v (to_be_bytes of an n-byte unsigned integer)
ToBeBytes(v, n) ==
    LET shr[k \in 0..n] == IF k = 0 THEN v ELSE shr[k - 1] \div 256
    IN  [i \in 1..n |-> shr[n - i] % 256]

\* from_be_bytes: the unsigned integer a big-endian byte sequence denotes
FromBeBytes(bs) ==
    LET v[i \in 0..Len(bs)] == IF i = 0 THEN 0 ELSE v[i - 1] * 256 + bs[i]
    IN  v[Len(bs)]

Min(a, b) == IF a < b THEN a ELSE b
Max(a, b) == IF a > b THEN a ELSE b

---------------------------------------------------------------------------
(* Opcode (opcode.rs).                                                     *)

Continuation == 0
Text         == 1
Binary       == 2
Close        == 8
Ping         == 9
Pong         == 10

Opcodes == 0..15

ReservedOpcodes == {3, 4, 5, 6, 7, 11, 12, 13, 14, 15}

---------------------------------------------------------------------------
(* Vec<u8>.                                                                *)

VecNew == [data |-> << >>, cap |-> 0]

VecWithCapacity(n) == [data |-> << >>, cap |-> n]

\* Vec::reserve(additional): amortised growth when the spare room is short
Reserve(v, additional) ==
    IF v.cap - Len(v.data) >= additional THEN v
    ELSE [v EXCEPT !.cap = Max(Max(2 * v.cap, Len(v.data) + additional), 8)]

\* a drain that stops one byte short: drain(..n - 1)
DrainOneShort(v, n) == [v EXCEPT !.data = SubSeq(v.data, n, Len(v.data))]

\* Vec::drain(..n): the first n bytes removed, the capacity kept
Drain(v, n) == [v EXCEPT !.data = SubSeq(v.data, n + 1, Len(v.data))]

---------------------------------------------------------------------------
(* Frame codec (frame.rs).                                                 *)

CONTROL_HEADER_LEN == 6
MAX_HEADER_LEN     == 14
MASK_BIT           == 128

\* what set_len exposes of memory no write has initialised yet
Uninit == -1

\* the scalar loop with | written for ^
MaskScalarOr(src, mask) ==
    [j \in 1..Len(src) |-> Or(src[j], mask[((j - 1) % 4) + 1])]

\* mask_scalar: dst[i] = src[i] ^ mask[i & 3]
mask_scalar(src, mask) ==
    [j \in 1..Len(src) |-> Xor(src[j], mask[((j - 1) % 4) + 1])]

\* the chunked kernel with the key loaded into the lanes as a big-endian word
\* (from_be_bytes for from_ne_bytes on a little-endian CPU)
MaskSimdBeLanes(src, mask) ==
    LET chunks  == Len(src) \div 16
        mask_x4 == [o \in 0..15 |-> mask[4 - (o % 4)]]
    IN  [j \in 1..Len(src) |->
            IF j - 1 < chunks * 16
            THEN Xor(src[j], mask_x4[(j - 1) % 16])
            ELSE Xor(src[j], mask[((j - 1) % 4) + 1])]

\* mask_simd_x86 / mask_simd_aarch: len / 16 blocks of 16 bytes XORed with
\* the mask broadcast four times, then the bytes from chunks * 16 one by one
mask_simd(src, mask) ==
    LET chunks  == Len(src) \div 16
        mask_x4 == [o \in 0..15 |-> mask[(o % 4) + 1]]
    IN  [j \in 1..Len(src) |->
            IF j - 1 < chunks * 16
            THEN Xor(src[j], mask_x4[(j - 1) % 16])
            ELSE Xor(src[j], mask[((j - 1) % 4) + 1])]

\* mask_data: the SIMD kernel when len >= 16 and the CPU has the feature
mask_data(src, mask, simd) ==
    IF Len(src) >= 16 /\ simd THEN mask_simd(src, mask) ELSE mask_scalar(src, mask)

\* a set_len that never shortens the vector
SetLenNeverShrinks(v, n) ==
    [v EXCEPT !.data = IF n <= Len(v.data) THEN v.data
                       ELSE v.data \o [i \in 1..(n - Len(v.data)) |-> Uninit]]

\* Vec::set_len(n) after reserve: the first n bytes of the allocation
SetLen(v, n) ==
    [v EXCEPT !.data = IF n <= Len(v.data) THEN SubSeq(v.data, 1, n)
                       ELSE v.data \o [i \in 1..(n - Len(v.data)) |-> Uninit]]

\* ptr writes: bytes stored at 0-based offset off of the allocation
WriteAt(v, off, bytes) ==
    [v EXCEPT !.data = SubSeq(v.data, 1, off) \o bytes
                       \o SubSeq(v.data, off + Len(bytes) + 1, Len(v.data))]

\* the first byte without the FIN bit
FirstByteWithoutFin(fin, opcode) == opcode

\* ((self.fin as u8) << 7) | self.opcode as u8
FirstByte(fin, opcode) == Or(IF fin THEN 128 ELSE 0, opcode)

\* an encode_control that sets the FIN bit whatever the frame says
EncodeControlAlwaysFin(frame, v, mask, simd) ==
    LET data_len == Len(frame.data)
        len      == CONTROL_HEADER_LEN + data_len
        d0 == SetLen(Reserve(v, len), len)
        d1 == WriteAt(d0, 0, << FirstByte(TRUE, frame.opcode) >>)
        d2 == WriteAt(d1, 1, << Or(MASK_BIT, data_len % 256) >>)
        d3 == WriteAt(d2, 2, mask)
    IN  WriteAt(d3, 6, mask_data(frame.data, mask, simd))

\* Frame::encode_control(self, dst, mask)
encode_control(frame, v, mask, simd) ==
    LET data_len == Len(frame.data)
        len      == CONTROL_HEADER_LEN + data_len
        d0 == SetLen(Reserve(v, len), len)
        d1 == WriteAt(d0, 0, << FirstByte(frame.fin, frame.opcode) >>)
        d2 == WriteAt(d1, 1, << Or(MASK_BIT, data_len % 256) >>)
        d3 == WriteAt(d2, 2, mask)
    IN  WriteAt(d3, 6, mask_data(frame.data, mask, simd))

\* the match with its first arm one too wide: ..=126 => 6
HeaderLenArmTooWide(data_len) ==
    IF data_len < 127 THEN 6 ELSE IF data_len < 65536 THEN 8 ELSE 14

\* the match on data_len in Frame::encode
HeaderLen(data_len) ==
    IF data_len < 126 THEN 6 ELSE IF data_len < 65536 THEN 8 ELSE 14

\* an encode that appends the frame to what dst holds (extend on a buffer
\* that was not cleared) instead of overwriting it from offset 0
EncodeAppends(frame, v, mask, simd) ==
    LET data_len == Len(frame.data)
        header   == CASE HeaderLen(data_len) = 6 ->
                           << FirstByte(frame.fin, frame.opcode),
                              Or(MASK_BIT, data_len % 256) >>
                      [] HeaderLen(data_len) = 8 ->
                           << FirstByte(frame.fin, frame.opcode), Or(MASK_BIT, 126) >>
                           \o ToBeBytes(data_len % 65536, 2)
                      [] HeaderLen(data_len) = 14 ->
                           << FirstByte(frame.fin, frame.opcode), Or(MASK_BIT, 127) >>
                           \o ToBeBytes(data_len, 8)
        bytes    == header \o mask \o mask_data(frame.data, mask, simd)
    IN  [data |-> v.data \o bytes,
         cap  |-> Reserve(v, Len(bytes)).cap]

\* Frame::encode(self, dst, mask)
encode(frame, v, mask, simd) ==
    LET data_len   == Len(frame.data)
        header_len == HeaderLen(data_len)
        len        == header_len + data_len
        d0 == SetLen(Reserve(v, len), len)
        d1 == WriteAt(d0, 0, << FirstByte(frame.fin, frame.opcode) >>)
        d2 == CASE header_len = 6 ->
                     WriteAt(WriteAt(d1, 1, << Or(MASK_BIT, data_len % 256) >>),
                             2, mask)
                [] header_len = 8 ->
                     WriteAt(WriteAt(WriteAt(d1, 1, << Or(MASK_BIT, 126) >>),
                                     2, ToBeBytes(data_len % 65536, 2)),
                             4, mask)
                [] header_len = 14 ->
                     WriteAt(WriteAt(WriteAt(d1, 1, << Or(MASK_BIT, 127) >>),
                                     2, ToBeBytes(data_len, 8)),
                             10, mask)
    IN  WriteAt(d2, header_len, mask_data(frame.data, mask, simd))

---------------------------------------------------------------------------
(* Receive state machine (client.rs:80-210).                               *)

CHUNK_SIZE == 4096
HEADER_LEN == 2

RsvMsg        == "Reserve bit must be 0."
MaskedMsg     == "Server to client communication should be unmasked."
ReservedMsg   == "Use of reserved opcode."
CloseLen1Msg  == "Close frame with a missing close reason byte."
ControlLenMsg == "Control frame larger than 125 bytes."
ControlFinMsg == "Control frame cannot be fragmented."

\* the fields read_frame_inner takes out of the two header bytes
HdrFin(x)    == x >= 128              \* b1 & 0x80 != 0
HdrRsv(x)    == ((x \div 16) % 8) * 16 \* b1 & 0x70
HdrOpcode(x) == x % 16                \* b1 & 0x0F
HdrMasked(y) == y >= 128              \* b2 & 0x80 != 0
HdrLen(y)    == y % 128               \* b2 & 0x7F

\* the checks without the one on the reserved bits
ValidateHeaderNoRsv(x, y) ==
    LET fin    == HdrFin(x)
        opcode == HdrOpcode(x)
        len    == HdrLen(y)
    IN  IF HdrMasked(y) THEN MaskedMsg
        ELSE IF opcode \in ReservedOpcodes THEN ReservedMsg
        ELSE IF opcode = Close THEN
                 IF len = 1 THEN CloseLen1Msg
                 ELSE IF len > 125 THEN ControlLenMsg
                 ELSE IF ~fin THEN ControlFinMsg
                 ELSE ""
        ELSE IF opcode \in {Ping, Pong} THEN
                 IF len > 125 THEN ControlLenMsg
                 ELSE IF ~fin THEN ControlFinMsg
                 ELSE ""
        ELSE ""

\* the checks with the Ping / Pong arm missing its FIN test
ValidateHeaderPingFin(x, y) ==
    LET fin    == HdrFin(x)
        opcode == HdrOpcode(x)
        len    == HdrLen(y)
    IN  IF HdrRsv(x) # 0 THEN RsvMsg
        ELSE IF HdrMasked(y) THEN MaskedMsg
        ELSE IF opcode \in ReservedOpcodes THEN ReservedMsg
        ELSE IF opcode = Close THEN
                 IF len = 1 THEN CloseLen1Msg
                 ELSE IF len > 125 THEN ControlLenMsg
                 ELSE IF ~fin THEN ControlFinMsg
                 ELSE ""
        ELSE IF opcode \in {Ping, Pong} THEN
                 IF len > 125 THEN ControlLenMsg
                 ELSE ""
        ELSE ""

\* the checks with the MASK test moved behind the match on the opcode
ValidateHeaderMaskLate(x, y) ==
    LET fin    == HdrFin(x)
        opcode == HdrOpcode(x)
        len    == HdrLen(y)
    IN  IF HdrRsv(x) # 0 THEN RsvMsg
        ELSE IF opcode \in ReservedOpcodes THEN ReservedMsg
        ELSE IF opcode = Close /\ len = 1 THEN CloseLen1Msg
        ELSE IF opcode \in {Close, Ping, Pong} /\ len > 125 THEN ControlLenMsg
        ELSE IF opcode \in {Close, Ping, Pong} /\ ~fin THEN ControlFinMsg
        ELSE IF HdrMasked(y) THEN MaskedMsg
        ELSE ""

\* The checks of client.rs:109-159 in their order: the message of the first
\* rule the header breaks, or "" when it passes.
ValidateHeader(x, y) ==
    LET fin    == HdrFin(x)
        opcode == HdrOpcode(x)
        len    == HdrLen(y)
    IN  IF HdrRsv(x) # 0 THEN RsvMsg
        ELSE IF HdrMasked(y) THEN MaskedMsg
        ELSE IF opcode \in ReservedOpcodes THEN ReservedMsg
        ELSE IF opcode = Close THEN
                 IF len = 1 THEN CloseLen1Msg
                 ELSE IF len > 125 THEN ControlLenMsg
                 ELSE IF ~fin THEN ControlFinMsg
                 ELSE ""
        ELSE IF opcode \in {Ping, Pong} THEN
                 IF len > 125 THEN ControlLenMsg
                 ELSE IF ~fin THEN ControlFinMsg
                 ELSE ""
        ELSE ""

\* where read_frame_inner goes after a header that passed: the match on
\* `length` of client.rs:161-187, taken for Text / Binary / Continuation only
AfterHeader(x, y) ==
    IF HdrOpcode(x) \in {Text, Binary, Continuation} /\ HdrLen(y) = 126 THEN "ext16"
    ELSE IF HdrOpcode(x) \in {Text, Binary, Continuation} /\ HdrLen(y) = 127 THEN "ext64"
    ELSE "payload"

\* the argument of the ensure_read call read_frame_inner is waiting in
Need ==
    CASE pc = "header"  -> HEADER_LEN
      [] pc = "ext16"   -> 2
      [] pc = "ext64"   -> 8
      [] pc = "payload" -> length
      [] OTHER          -> 0

\* the loop condition with <= for <
MustReadInclusive(v, consumed, len) == Len(v.data) <= consumed + len

\* ensure_read's loop condition (client.rs:201)
MustRead(v, consumed, len) == Len(v.data) < consumed + len

\* the compaction test of client.rs:90-91; capacity - CHUNK_SIZE is a usize
\* subtraction, which wraps to a huge value when the capacity is smaller
CompactionDue(v, consumed) ==
    /\ consumed > 0
    /\ v.cap >= CHUNK_SIZE
    /\ Len(v.data) > v.cap - CHUNK_SIZE

Result(kind, fin, opcode, data, msg, after) ==
    [kind |-> kind, fin |-> fin, opcode |-> opcode, data |-> data, msg |-> msg,
     after_close |-> after]

NoResult(after) == Result("none", FALSE, 0, << >>, "", after)

\* an entry of the history of returns: a frame, or a ProtocolViolation with
\* the FIN bit and opcode of the header it refused
Returned(kind, fin, opcode) == [kind |-> kind, fin |-> fin, opcode |-> opcode]

\* the compaction step draining the prefix and leaving the watermark where
\* it was
ReadFrameKeepsWatermark ==
    /\ pc = "idle" /\ wpc = "idle"
    /\ IF CompactionDue(read_buffer, read_consumed)
       THEN /\ read_buffer' = Drain(read_buffer, read_consumed)
            /\ UNCHANGED read_consumed
       ELSE UNCHANGED << read_buffer, read_consumed >>
    /\ pc' = "header"
    /\ frame_start' = read_consumed'
    /\ read_since_hdr' = FALSE
    /\ eof_seen' = FALSE
    /\ rd_result' = NoResult(close_seen)
    /\ UNCHANGED << incoming, pending, taken, b1, b2, length, peer_frames,
                    n_returned, close_seen, failed >>
    /\ UNCHANGED rd_history
    /\ UNCHANGED << outgoing, write_buffer, write_rng, wpc, dst, wr_result, sent >>
    /\ UNCHANGED << cpu_simd, enc_in, enc_out >>

\* read_frame_inner entered: the compaction step, then ensure_read(HEADER_LEN)
ReadFrame ==
    /\ pc = "idle" /\ wpc = "idle"
    /\ IF CompactionDue(read_buffer, read_consumed)
       THEN /\ read_buffer' = Drain(read_buffer, read_consumed)
            /\ read_consumed' = 0
       ELSE UNCHANGED << read_buffer, read_consumed >>
    /\ pc' = "header"
    /\ frame_start' = read_consumed'
    /\ read_since_hdr' = FALSE
    /\ eof_seen' = FALSE
    /\ rd_result' = NoResult(close_seen)
    /\ UNCHANGED << incoming, pending, taken, b1, b2, length, peer_frames,
                    n_returned, close_seen, failed >>
    /\ UNCHANGED rd_history
    /\ UNCHANGED writeVars /\ UNCHANGED encVars

\* an ensure_read that makes room by draining the consumed prefix before it
\* hands the buffer to read_extend
EnsureReadTakeCompacts ==
    /\ pc # "idle" /\ ~pending
    /\ MustRead(read_buffer, read_consumed, Need)
    /\ taken' = Drain(read_buffer, read_consumed)
    /\ read_consumed' = 0
    /\ read_buffer' = VecNew
    /\ pending' = TRUE
    /\ read_since_hdr' = (read_since_hdr \/ pc # "header")
    /\ UNCHANGED << incoming, pc, b1, b2, length, rd_result, peer_frames,
                    n_returned, frame_start, eof_seen, close_seen, failed >>
    /\ UNCHANGED rd_history
    /\ UNCHANGED << outgoing, write_buffer, write_rng, wpc, dst, wr_result, sent >>
    /\ UNCHANGED << cpu_simd, enc_in, enc_out >>

\* ensure_read: the loop finds too few bytes, takes the buffer out of the
\* client (mem::take leaves Vec::new()) and hands it to read_extend
EnsureReadTake ==
    /\ pc # "idle" /\ ~pending
    /\ MustRead(read_buffer, read_consumed, Need)
    /\ taken' = read_buffer
    /\ read_buffer' = VecNew
    /\ pending' = TRUE
    /\ read_since_hdr' = (read_since_hdr \/ pc # "header")
    /\ UNCHANGED << incoming, read_consumed, pc, b1, b2, length, rd_result,
                    peer_frames, n_returned, frame_start, eof_seen, close_seen,
                    failed >>
    /\ UNCHANGED rd_history
    /\ UNCHANGED writeVars /\ UNCHANGED encVars

\* a read_extend that grows the buffer only by the bytes that arrived
ReadExtendOkGrowsToFit ==
    /\ pending
    /\ \E n \in 0..Min(CHUNK_SIZE, Len(incoming)) :
          /\ read_buffer' = [data |-> taken.data \o SubSeq(incoming, 1, n),
                             cap  |-> Reserve(taken, n).cap]
          /\ incoming' = IF n = 0 THEN << >>
                         ELSE SubSeq(incoming, n + 1, Len(incoming))
          /\ eof_seen' = (eof_seen \/ n = 0)
    /\ taken' = VecNew
    /\ pending' = FALSE
    /\ UNCHANGED << read_consumed, pc, b1, b2, length, rd_result, peer_frames,
                    n_returned, frame_start, read_since_hdr, close_seen, failed >>
    /\ UNCHANGED rd_history
    /\ UNCHANGED << outgoing, write_buffer, write_rng, wpc, dst, wr_result, sent >>
    /\ UNCHANGED << cpu_simd, enc_in, enc_out >>

\* read_extend completes with n bytes appended (0: end of stream; the peer
\* sends nothing after it) and the buffer is put back
ReadExtendOk ==
    /\ pending
    /\ \E n \in 0..Min(CHUNK_SIZE, Len(incoming)) :
          /\ read_buffer' = [data |-> taken.data \o SubSeq(incoming, 1, n),
                             cap  |-> Reserve(taken, CHUNK_SIZE).cap]
          /\ incoming' = IF n = 0 THEN << >>
                         ELSE SubSeq(incoming, n + 1, Len(incoming))
          /\ eof_seen' = (eof_seen \/ n = 0)
    /\ taken' = VecNew
    /\ pending' = FALSE
    /\ UNCHANGED << read_consumed, pc, b1, b2, length, rd_result, peer_frames,
                    n_returned, frame_start, read_since_hdr, close_seen, failed >>
    /\ UNCHANGED rd_history
    /\ UNCHANGED writeVars /\ UNCHANGED encVars

\* read_extend fails and `res?` returns before the buffer is put back
ReadExtendErrDropsBuffer ==
    /\ pending
    /\ read_buffer' = VecNew
    /\ taken' = VecNew
    /\ pending' = FALSE
    /\ pc' = "idle"
    /\ rd_result' = Result("io", FALSE, 0, << >>, "", rd_result.after_close)
    /\ failed' = TRUE
    /\ UNCHANGED << incoming, read_consumed, b1, b2, length, peer_frames,
                    n_returned, frame_start, read_since_hdr, eof_seen, close_seen >>
    /\ UNCHANGED rd_history
    /\ UNCHANGED << outgoing, write_buffer, write_rng, wpc, dst, wr_result, sent >>
    /\ UNCHANGED << cpu_simd, enc_in, enc_out >>

\* read_extend fails: the buffer is put back emptied, its allocation kept
ReadExtendErrClearsBuffer ==
    /\ pending
    /\ read_buffer' = [data |-> << >>, cap |-> taken.cap]
    /\ taken' = VecNew
    /\ pending' = FALSE
    /\ pc' = "idle"
    /\ rd_result' = Result("io", FALSE, 0, << >>, "", rd_result.after_close)
    /\ failed' = TRUE
    /\ UNCHANGED << incoming, read_consumed, b1, b2, length, peer_frames,
                    n_returned, frame_start, read_since_hdr, eof_seen, close_seen >>
    /\ UNCHANGED rd_history
    /\ UNCHANGED << outgoing, write_buffer, write_rng, wpc, dst, wr_result, sent >>
    /\ UNCHANGED << cpu_simd, enc_in, enc_out >>

\* read_extend fails: the buffer is put back, then `res?` returns Error::Io
ReadExtendErr ==
    /\ pending
    /\ read_buffer' = taken
    /\ taken' = VecNew
    /\ pending' = FALSE
    /\ pc' = "idle"
    /\ rd_result' = Result("io", FALSE, 0, << >>, "", rd_result.after_close)
    /\ failed' = TRUE
    /\ UNCHANGED << incoming, read_consumed, b1, b2, length, peer_frames,
                    n_returned, frame_start, read_since_hdr, eof_seen, close_seen >>
    /\ UNCHANGED rd_history
    /\ UNCHANGED writeVars /\ UNCHANGED encVars

\* a header parse that goes on to the length and the payload whatever the
\* header says
ParseHeaderGoesOn ==
    /\ pc = "header" /\ ~pending
    /\ ~MustRead(read_buffer, read_consumed, HEADER_LEN)
    /\ LET x == read_buffer.data[read_consumed + 1]
           y == read_buffer.data[read_consumed + 2]
       IN  /\ b1' = x
           /\ b2' = y
           /\ read_consumed' = read_consumed + HEADER_LEN
           /\ length' = HdrLen(y)
           /\ pc' = AfterHeader(x, y)
           /\ UNCHANGED << rd_result, failed, rd_history >>
    /\ UNCHANGED << incoming, read_buffer, pending, taken, peer_frames,
                    n_returned, frame_start, read_since_hdr, eof_seen, close_seen >>
    /\ UNCHANGED << outgoing, write_buffer, write_rng, wpc, dst, wr_result, sent >>
    /\ UNCHANGED << cpu_simd, enc_in, enc_out >>

\* client.rs:99-159: the two header bytes are there; parse and validate them
ParseHeader ==
    /\ pc = "header" /\ ~pending
    /\ ~MustRead(read_buffer, read_consumed, HEADER_LEN)
    /\ LET x == read_buffer.data[read_consumed + 1]
           y == read_buffer.data[read_consumed + 2]
           msg == ValidateHeader(x, y)
       IN  /\ b1' = x
           /\ b2' = y
           /\ read_consumed' = read_consumed + HEADER_LEN
           /\ length' = HdrLen(y)
           /\ IF msg # ""
              THEN /\ pc' = "idle"
                   /\ rd_result' = Result("violation", FALSE, 0, << >>, msg,
                                          rd_result.after_close)
                   /\ failed' = TRUE
                   /\ rd_history' = Append(rd_history,
                                           Returned("violation", HdrFin(x),
                                                    HdrOpcode(x)))
              ELSE /\ pc' = AfterHeader(x, y)
                   /\ UNCHANGED << rd_result, failed, rd_history >>
    /\ UNCHANGED << incoming, read_buffer, pending, taken, peer_frames,
                    n_returned, frame_start, read_since_hdr, eof_seen, close_seen >>
    /\ UNCHANGED writeVars /\ UNCHANGED encVars

\* client.rs:162-173: the 2-byte extended length
ParseExt16 ==
    /\ pc = "ext16" /\ ~pending
    /\ ~MustRead(read_buffer, read_consumed, 2)
    /\ length' = FromBeBytes(SubSeq(read_buffer.data, read_consumed + 1,
                                    read_consumed + 2))
    /\ read_consumed' = read_consumed + 2
    /\ pc' = "payload"
    /\ UNCHANGED << incoming, read_buffer, pending, taken, b1, b2, rd_result,
                    peer_frames, n_returned, frame_start, read_since_hdr,
                    eof_seen, close_seen, failed >>
    /\ UNCHANGED rd_history
    /\ UNCHANGED writeVars /\ UNCHANGED encVars

\* the 8-byte arm advancing the watermark by the 2 of the arm above it
ParseExt64AdvancesTwo ==
    /\ pc = "ext64" /\ ~pending
    /\ ~MustRead(read_buffer, read_consumed, 8)
    /\ length' = FromBeBytes(SubSeq(read_buffer.data, read_consumed + 1,
                                    read_consumed + 8))
    /\ read_consumed' = read_consumed + 2
    /\ pc' = "payload"
    /\ UNCHANGED << incoming, read_buffer, pending, taken, b1, b2, rd_result,
                    peer_frames, n_returned, frame_start, read_since_hdr,
                    eof_seen, close_seen, failed >>
    /\ UNCHANGED rd_history
    /\ UNCHANGED << outgoing, write_buffer, write_rng, wpc, dst, wr_result, sent >>
    /\ UNCHANGED << cpu_simd, enc_in, enc_out >>

\* client.rs:174-185: the 8-byte extended length
ParseExt64 ==
    /\ pc = "ext64" /\ ~pending
    /\ ~MustRead(read_buffer, read_consumed, 8)
    /\ length' = FromBeBytes(SubSeq(read_buffer.data, read_consumed + 1,
                                    read_consumed + 8))
    /\ read_consumed' = read_consumed + 8
    /\ pc' = "payload"
    /\ UNCHANGED << incoming, read_buffer, pending, taken, b1, b2, rd_result,
                    peer_frames, n_returned, frame_start, read_since_hdr,
                    eof_seen, close_seen, failed >>
    /\ UNCHANGED rd_history
    /\ UNCHANGED writeVars /\ UNCHANGED encVars

\* client.rs:191-196: the payload is there; the frame is returned
ReturnFrame ==
    /\ pc = "payload" /\ ~pending
    /\ ~MustRead(read_buffer, read_consumed, length)
    /\ rd_result' = Result("frame", HdrFin(b1), HdrOpcode(b1),
                           SubSeq(read_buffer.data, read_consumed + 1,
                                  read_consumed + length),
                           "", rd_result.after_close)
    /\ read_consumed' = read_consumed + length
    /\ pc' = "idle"
    /\ n_returned' = n_returned + 1
    /\ close_seen' = (close_seen \/ HdrOpcode(b1) = Close)
    /\ rd_history' = Append(rd_history, Returned("frame", HdrFin(b1), HdrOpcode(b1)))
    /\ UNCHANGED << incoming, read_buffer, pending, taken, b1, b2, length,
                    peer_frames, frame_start, read_since_hdr, eof_seen, failed >>
    /\ UNCHANGED writeVars /\ UNCHANGED encVars

NextRead ==
    \/ ReadFrame
    \/ EnsureReadTake
    \/ ReadExtendOk
    \/ ReadExtendErr
    \/ ParseHeader
    \/ ParseExt16
    \/ ParseExt64
    \/ ReturnFrame

---------------------------------------------------------------------------
(* Send interface (client.rs:212-281).                                     *)

\* Config::default(): read_buffer_capacity and write_buffer_capacity
DefaultCapacity == 128 * 1024

Frame(fin, opcode, data) == [fin |-> fin, opcode |-> opcode, data |-> data]

\* SmallRng: write_rng is the generator's state, seeded from the OS.  A draw
\* returns the four bytes of the next u32 (to_ne_bytes) and steps the state.
RngOutput(state) == state
RngStep(state)   == [i \in 1..4 |-> (state[i] * 5 + 2 * i + 1) % 256]

WriteResult(kind, after) == [kind |-> kind, after_close |-> after]
NoWrite(after) == WriteResult("none", after)

\* sends per client: of a client that only sends, and of one on a stream
\* that carries frames, whose reads interleave with the sends
MaxSends == 2
MaxSendsReading == 1

SendsAllowed == IF peer_frames = << >> THEN MaxSends ELSE MaxSendsReading

\* the same with the key read off the generator without advancing it
StartWriteKeepsRng(frame, control) ==
    /\ pc = "idle" /\ wpc = "idle"
    /\ Len(sent) < SendsAllowed
    /\ LET mask == RngOutput(write_rng)
       IN  /\ dst' = IF control
                     THEN encode_control(frame, write_buffer, mask, cpu_simd)
                     ELSE encode(frame, write_buffer, mask, cpu_simd)
           /\ sent' = Append(sent, [fin |-> frame.fin, opcode |-> frame.opcode,
                                    data |-> frame.data, mask |-> mask,
                                    control |-> control, res |-> "pending",
                                    wrote |-> << >>])
    /\ write_rng' = write_rng
    /\ write_buffer' = VecNew
    /\ wpc' = "writing"
    /\ wr_result' = NoWrite(close_seen)
    /\ UNCHANGED outgoing
    /\ UNCHANGED << incoming, read_buffer, read_consumed, pc, pending, taken, b1,
                    b2, length, rd_result, peer_frames, n_returned, frame_start,
                    read_since_hdr, eof_seen, close_seen, failed, rd_history >>
    /\ UNCHANGED << cpu_simd, enc_in, enc_out >>

\* a send that encodes into the receive buffer instead of the scratch buffer
StartWriteIntoReadBuffer(frame, control) ==
    /\ pc = "idle" /\ wpc = "idle"
    /\ Len(sent) < SendsAllowed
    /\ LET mask == RngOutput(write_rng)
       IN  /\ dst' = IF control
                     THEN encode_control(frame, read_buffer, mask, cpu_simd)
                     ELSE encode(frame, read_buffer, mask, cpu_simd)
           /\ sent' = Append(sent, [fin |-> frame.fin, opcode |-> frame.opcode,
                                    data |-> frame.data, mask |-> mask,
                                    control |-> control, res |-> "pending",
                                    wrote |-> << >>])
    /\ write_rng' = RngStep(write_rng)
    /\ read_buffer' = VecNew
    /\ wpc' = "writing"
    /\ wr_result' = NoWrite(close_seen)
    /\ UNCHANGED << outgoing, write_buffer >>
    /\ UNCHANGED << incoming, read_consumed, pc, pending, taken, b1,
                    b2, length, rd_result, peer_frames, n_returned, frame_start,
                    read_since_hdr, eof_seen, close_seen, failed, rd_history >>
    /\ UNCHANGED << cpu_simd, enc_in, enc_out >>

\* a send that refuses a control frame whose payload is longer than 125
\* bytes: it returns an error of its own and nothing is written
StartWriteChecksControlLength(frame, control) ==
    /\ pc = "idle" /\ wpc = "idle"
    /\ Len(sent) < SendsAllowed
    /\ IF frame.opcode \in {Close, Ping, Pong} /\ Len(frame.data) > 125
       THEN /\ sent' = Append(sent, [fin |-> frame.fin, opcode |-> frame.opcode,
                                     data |-> frame.data,
                                     mask |-> << 0, 0, 0, 0 >>,
                                     control |-> control, res |-> "invalid",
                                     wrote |-> << >>])
            /\ wr_result' = WriteResult("invalid", close_seen)
            /\ UNCHANGED << dst, write_rng, write_buffer, wpc >>
       ELSE /\ LET mask == RngOutput(write_rng)
               IN  /\ dst' = IF control
                             THEN encode_control(frame, write_buffer, mask, cpu_simd)
                             ELSE encode(frame, write_buffer, mask, cpu_simd)
                   /\ sent' = Append(sent, [fin |-> frame.fin,
                                            opcode |-> frame.opcode,
                                            data |-> frame.data, mask |-> mask,
                                            control |-> control,
                                            res |-> "pending", wrote |-> << >>])
            /\ write_rng' = RngStep(write_rng)
            /\ write_buffer' = VecNew
            /\ wpc' = "writing"
            /\ wr_result' = NoWrite(close_seen)
    /\ UNCHANGED outgoing
    /\ UNCHANGED << incoming, read_buffer, read_consumed, pc, pending, taken, b1,
                    b2, length, rd_result, peer_frames, n_returned, frame_start,
                    read_since_hdr, eof_seen, close_seen, failed, rd_history >>
    /\ UNCHANGED << cpu_simd, enc_in, enc_out >>

\* write_frame / write_control_frame up to the await of write_all: the scratch
\* buffer is taken out of the client, a mask is drawn, the frame is encoded
StartWrite(frame, control) ==
    /\ pc = "idle" /\ wpc = "idle"
    /\ Len(sent) < SendsAllowed
    /\ LET mask == RngOutput(write_rng)
       IN  /\ dst' = IF control
                     THEN encode_control(frame, write_buffer, mask, cpu_simd)
                     ELSE encode(frame, write_buffer, mask, cpu_simd)
           /\ sent' = Append(sent, [fin |-> frame.fin, opcode |-> frame.opcode,
                                    data |-> frame.data, mask |-> mask,
                                    control |-> control, res |-> "pending",
                                    wrote |-> << >>])
    /\ write_rng' = RngStep(write_rng)
    /\ write_buffer' = VecNew
    /\ wpc' = "writing"
    /\ wr_result' = NoWrite(close_seen)
    /\ UNCHANGED outgoing
    /\ UNCHANGED readVars /\ UNCHANGED encVars

\* payloads the caller sends
SendData == { << >>, << 104, 105 >>,
              << 1, 2, 3, 4, 5, 6, 7, 8, 9, 10, 11, 12, 13, 14, 15, 16, 17, 18 >> }

\* frames the caller hands to write_frame and write_control_frame
SendFrames == { Frame(FALSE, Text, << 65 >>), Frame(TRUE, Pong, << >>) }

send_ping   == \E data \in SendData : StartWrite(Frame(TRUE, Ping, data), FALSE)
send_pong   == \E data \in SendData : StartWrite(Frame(TRUE, Pong, data), FALSE)
send_binary == \E data \in SendData : StartWrite(Frame(TRUE, Binary, data), FALSE)
send_text   == \E data \in SendData : StartWrite(Frame(TRUE, Text, data), FALSE)
send_close  == \E data \in SendData : StartWrite(Frame(TRUE, Close, data), FALSE)
write_frame == \E f \in SendFrames : StartWrite(f, FALSE)
write_control_frame == \E f \in SendFrames : StartWrite(f, TRUE)

\* write_all completes: every byte is on the stream, the buffer comes back
WriteAllOk ==
    /\ wpc = "writing"
    /\ outgoing' = outgoing \o dst.data
    /\ write_buffer' = dst
    /\ dst' = VecNew
    /\ wpc' = "idle"
    /\ wr_result' = WriteResult("ok", wr_result.after_close)
    /\ sent' = [sent EXCEPT ![Len(sent)].res = "ok", ![Len(sent)].wrote = dst.data]
    /\ UNCHANGED write_rng
    /\ UNCHANGED readVars /\ UNCHANGED encVars

\* write_all fails and the call returns the error (`res?`) before the buffer
\* is stored back
WriteAllErrDropsBuffer ==
    /\ wpc = "writing"
    /\ \E k \in {0, Len(dst.data) - 1} :
          /\ outgoing' = outgoing \o SubSeq(dst.data, 1, k)
          /\ sent' = [sent EXCEPT ![Len(sent)].res = "io",
                                  ![Len(sent)].wrote = SubSeq(dst.data, 1, k)]
    /\ write_buffer' = VecNew
    /\ dst' = VecNew
    /\ wpc' = "idle"
    /\ wr_result' = WriteResult("io", wr_result.after_close)
    /\ UNCHANGED write_rng
    /\ UNCHANGED << incoming, read_buffer, read_consumed, pc, pending, taken, b1,
                    b2, length, rd_result, peer_frames, n_returned, frame_start,
                    read_since_hdr, eof_seen, close_seen, failed, rd_history >>
    /\ UNCHANGED << cpu_simd, enc_in, enc_out >>

\* write_all fails after the stream took the first k bytes (none of them, or
\* all but the last): the buffer comes back and the caller gets the stream's
\* error
WriteAllErr ==
    /\ wpc = "writing"
    /\ \E k \in {0, Len(dst.data) - 1} :
          /\ outgoing' = outgoing \o SubSeq(dst.data, 1, k)
          /\ sent' = [sent EXCEPT ![Len(sent)].res = "io",
                                  ![Len(sent)].wrote = SubSeq(dst.data, 1, k)]
    /\ write_buffer' = dst
    /\ dst' = VecNew
    /\ wpc' = "idle"
    /\ wr_result' = WriteResult("io", wr_result.after_close)
    /\ UNCHANGED write_rng
    /\ UNCHANGED readVars /\ UNCHANGED encVars

NextWrite ==
    \/ send_ping
    \/ send_pong
    \/ send_binary
    \/ send_text
    \/ send_close
    \/ write_frame
    \/ write_control_frame
    \/ WriteAllOk
    \/ WriteAllErr

---------------------------------------------------------------------------
(* The codec on its own: one call of encode or encode_control on inputs    *)
(* drawn from EncInputs.                                                   *)

NoEncInput == [fin |-> FALSE, opcode |-> 0, data |-> << >>,
               mask |-> << 0, 0, 0, 0 >>, dst |-> VecNew]

NotEncoded == [by |-> "none", vec |-> VecNew]

Encode ==
    /\ enc_out.by = "none" /\ enc_in # NoEncInput
    /\ enc_out' = [by  |-> "encode",
                   vec |-> encode(Frame(enc_in.fin, enc_in.opcode, enc_in.data),
                                  enc_in.dst, enc_in.mask, cpu_simd)]
    /\ UNCHANGED << cpu_simd, enc_in >>
    /\ UNCHANGED readVars /\ UNCHANGED writeVars

EncodeControl ==
    /\ enc_out.by = "none" /\ enc_in # NoEncInput
    /\ enc_out' = [by  |-> "encode_control",
                   vec |-> encode_control(Frame(enc_in.fin, enc_in.opcode, enc_in.data),
                                          enc_in.dst, enc_in.mask, cpu_simd)]
    /\ UNCHANGED << cpu_simd, enc_in >>
    /\ UNCHANGED readVars /\ UNCHANGED writeVars

NextEnc == Encode \/ EncodeControl

\* The masking kernels on their own: enc_in.data is masked with enc_in.mask by
\* one of the kernels or by the dispatcher mask_data, and the result may be
\* masked once more with the same key.
Masked(by, bytes) == [by |-> by, vec |-> [data |-> bytes, cap |-> Len(bytes)]]

MaskScalar ==
    /\ enc_out.by = "none"
    /\ enc_out' = Masked("mask_scalar", mask_scalar(enc_in.data, enc_in.mask))
    /\ UNCHANGED << cpu_simd, enc_in >>
    /\ UNCHANGED readVars /\ UNCHANGED writeVars

\* the chunked kernel, callable only where the CPU has the feature
MaskSimd ==
    /\ enc_out.by = "none" /\ cpu_simd
    /\ enc_out' = Masked("mask_simd", mask_simd(enc_in.data, enc_in.mask))
    /\ UNCHANGED << cpu_simd, enc_in >>
    /\ UNCHANGED readVars /\ UNCHANGED writeVars

MaskData ==
    /\ enc_out.by = "none"
    /\ enc_out' = Masked("mask_data", mask_data(enc_in.data, enc_in.mask, cpu_simd))
    /\ UNCHANGED << cpu_simd, enc_in >>
    /\ UNCHANGED readVars /\ UNCHANGED writeVars

\* the masked bytes masked again with the same key
Unmask ==
    /\ enc_out.by \in {"mask_scalar", "mask_simd", "mask_data"}
    /\ enc_out' = Masked("unmask", mask_data(enc_out.vec.data, enc_in.mask, cpu_simd))
    /\ UNCHANGED << cpu_simd, enc_in >>
    /\ UNCHANGED readVars /\ UNCHANGED writeVars

NextMask == MaskScalar \/ MaskSimd \/ MaskData \/ Unmask

---------------------------------------------------------------------------
(* Opcode (opcode.rs): the enum, its conversions and its classification.   *)
(* A variant is the string of its name.                                    *)

\* the variants in the order of the enum, which is the order of their
\* discriminants 0x0 .. 0xF
OpcodeVariants ==
    << "Continuation", "Text", "Binary", "Reserved3", "Reserved4", "Reserved5",
       "Reserved6", "Reserved7", "Close", "Ping", "Pong", "ReservedB",
       "ReservedC", "ReservedD", "ReservedE", "ReservedF" >>

OkOpcode(op)        == [ok |-> TRUE, variant |-> op, err |-> 0]
InvalidOpcode(value) == [ok |-> FALSE, variant |-> "", err |-> value]

\* the match with the 0xB arm a copy of the 0xA arm
OpcodeTryFromCopiedArm(value) ==
    CASE value = 0  -> OkOpcode("Continuation")
      [] value = 1  -> OkOpcode("Text")
      [] value = 2  -> OkOpcode("Binary")
      [] value = 3  -> OkOpcode("Reserved3")
      [] value = 4  -> OkOpcode("Reserved4")
      [] value = 5  -> OkOpcode("Reserved5")
      [] value = 6  -> OkOpcode("Reserved6")
      [] value = 7  -> OkOpcode("Reserved7")
      [] value = 8  -> OkOpcode("Close")
      [] value = 9  -> OkOpcode("Ping")
      [] value = 10 -> OkOpcode("Pong")
      [] value = 11 -> OkOpcode("Pong")
      [] value = 12 -> OkOpcode("ReservedC")
      [] value = 13 -> OkOpcode("ReservedD")
      [] value = 14 -> OkOpcode("ReservedE")
      [] value = 15 -> OkOpcode("ReservedF")
      [] OTHER      -> InvalidOpcode(value)

\* impl TryFrom<u8> for Opcode
Opcode_try_from(value) ==
    CASE value = 0  -> OkOpcode("Continuation")
      [] value = 1  -> OkOpcode("Text")
      [] value = 2  -> OkOpcode("Binary")
      [] value = 3  -> OkOpcode("Reserved3")
      [] value = 4  -> OkOpcode("Reserved4")
      [] value = 5  -> OkOpcode("Reserved5")
      [] value = 6  -> OkOpcode("Reserved6")
      [] value = 7  -> OkOpcode("Reserved7")
      [] value = 8  -> OkOpcode("Close")
      [] value = 9  -> OkOpcode("Ping")
      [] value = 10 -> OkOpcode("Pong")
      [] value = 11 -> OkOpcode("ReservedB")
      [] value = 12 -> OkOpcode("ReservedC")
      [] value = 13 -> OkOpcode("ReservedD")
      [] value = 14 -> OkOpcode("ReservedE")
      [] value = 15 -> OkOpcode("ReservedF")
      [] OTHER      -> InvalidOpcode(value)

\* impl From<Opcode> for u8: `value as u8`, the variant's discriminant
Opcode_as_u8(op) ==
    (CHOOSE i \in 1..Len(OpcodeVariants) : OpcodeVariants[i] = op) - 1

\* a classification that knows the three defined control opcodes only
IsControlDefinedOnly(op) == op \in {"Close", "Ping", "Pong"}

\* (self as u8) & 0x8 == 0x8
is_control(op) == (Opcode_as_u8(op) \div 8) % 2 = 1

\* matches!(self, Continuation | Text | Binary)
is_data(op) == op \in {"Continuation", "Text", "Binary"}

\* !self.is_data() && !matches!(self, Close | Ping | Pong)
is_reserved(op) == ~is_data(op) /\ op \notin {"Close", "Ping", "Pong"}

\* Opcode::try_from(value) on the byte in enc_in
OpcodeTryFrom ==
    /\ enc_out.by = "none"
    /\ enc_out' = [by |-> "try_from", res |-> Opcode_try_from(enc_in.value)]
    /\ UNCHANGED << cpu_simd, enc_in >>
    /\ UNCHANGED readVars /\ UNCHANGED writeVars

\* u8::from(opcode) on the variant the parse gave
OpcodeIntoU8 ==
    /\ enc_out.by = "try_from" /\ enc_out.res.ok
    /\ enc_out' = [by |-> "into_u8", variant |-> enc_out.res.variant,
                   u8 |-> Opcode_as_u8(enc_out.res.variant)]
    /\ UNCHANGED << cpu_simd, enc_in >>
    /\ UNCHANGED readVars /\ UNCHANGED writeVars

\* is_control(), is_data() and is_reserved() on the variant the parse gave
OpcodeClassify ==
    /\ enc_out.by = "try_from" /\ enc_out.res.ok
    /\ enc_out' = [by |-> "classify", variant |-> enc_out.res.variant,
                   control  |-> is_control(enc_out.res.variant),
                   data     |-> is_data(enc_out.res.variant),
                   reserved |-> is_reserved(enc_out.res.variant)]
    /\ UNCHANGED << cpu_simd, enc_in >>
    /\ UNCHANGED readVars /\ UNCHANGED writeVars

NextOpcode == OpcodeTryFrom \/ OpcodeIntoU8 \/ OpcodeClassify

---------------------------------------------------------------------------
(* CloseCode (close_code.rs): the enum and its conversions.  A variant is  *)
(* a record [tag, code]; code is the u16 a Library or Private variant      *)
(* carries and 0 in the variants that carry nothing.                       *)

NamedCloseCodes ==
    { "Normal", "GoingAway", "ProtocolError", "UnsupportedData",
      "Reserved", "NoStatusReceived", "Abnormal", "InvalidFramePayloadData",
      "PolicyViolation", "MessageTooBig", "MandatoryExtension", "InternalError",
      "ServiceRestart", "TryAgainLater", "BadGateway", "TlsHandshake" }

Named(tag)  == [tag |-> tag, code |-> 0]
Library(x)  == [tag |-> "Library", code |-> x]
Private(x)  == [tag |-> "Private", code |-> x]

OkCloseCode(c)          == [ok |-> TRUE, variant |-> c, err |-> 0]
InvalidCloseCode(value) == [ok |-> FALSE, variant |-> Named(""), err |-> value]

\* the match with the Library arm written 3000..3999, its end excluded
CloseCodeTryFromHalfOpen(value) ==
    CASE value = 1000 -> OkCloseCode(Named("Normal"))
      [] value = 1001 -> OkCloseCode(Named("GoingAway"))
      [] value = 1002 -> OkCloseCode(Named("ProtocolError"))
      [] value = 1003 -> OkCloseCode(Named("UnsupportedData"))
      [] value = 1004 -> OkCloseCode(Named("Reserved"))
      [] value = 1005 -> OkCloseCode(Named("NoStatusReceived"))
      [] value = 1006 -> OkCloseCode(Named("Abnormal"))
      [] value = 1007 -> OkCloseCode(Named("InvalidFramePayloadData"))
      [] value = 1008 -> OkCloseCode(Named("PolicyViolation"))
      [] value = 1009 -> OkCloseCode(Named("MessageTooBig"))
      [] value = 1010 -> OkCloseCode(Named("MandatoryExtension"))
      [] value = 1011 -> OkCloseCode(Named("InternalError"))
      [] value = 1012 -> OkCloseCode(Named("ServiceRestart"))
      [] value = 1013 -> OkCloseCode(Named("TryAgainLater"))
      [] value = 1014 -> OkCloseCode(Named("BadGateway"))
      [] value = 1015 -> OkCloseCode(Named("TlsHandshake"))
      [] value \in 3000..3998 -> OkCloseCode(Library(value))
      [] value \in 4000..4999 -> OkCloseCode(Private(value))
      [] OTHER -> InvalidCloseCode(value)

\* impl TryFrom<u16> for CloseCode
CloseCode_try_from(value) ==
    CASE value = 1000 -> OkCloseCode(Named("Normal"))
      [] value = 1001 -> OkCloseCode(Named("GoingAway"))
      [] value = 1002 -> OkCloseCode(Named("ProtocolError"))
      [] value = 1003 -> OkCloseCode(Named("UnsupportedData"))
      [] value = 1004 -> OkCloseCode(Named("Reserved"))
      [] value = 1005 -> OkCloseCode(Named("NoStatusReceived"))
      [] value = 1006 -> OkCloseCode(Named("Abnormal"))
      [] value = 1007 -> OkCloseCode(Named("InvalidFramePayloadData"))
      [] value = 1008 -> OkCloseCode(Named("PolicyViolation"))
      [] value = 1009 -> OkCloseCode(Named("MessageTooBig"))
      [] value = 1010 -> OkCloseCode(Named("MandatoryExtension"))
      [] value = 1011 -> OkCloseCode(Named("InternalError"))
      [] value = 1012 -> OkCloseCode(Named("ServiceRestart"))
      [] value = 1013 -> OkCloseCode(Named("TryAgainLater"))
      [] value = 1014 -> OkCloseCode(Named("BadGateway"))
      [] value = 1015 -> OkCloseCode(Named("TlsHandshake"))
      [] value \in 3000..3999 -> OkCloseCode(Library(value))
      [] value \in 4000..4999 -> OkCloseCode(Private(value))
      [] OTHER -> InvalidCloseCode(value)

\* impl From<CloseCode> for u16
CloseCode_into_u16(c) ==
    CASE c.tag = "Normal" -> 1000
      [] c.tag = "GoingAway" -> 1001
      [] c.tag = "ProtocolError" -> 1002
      [] c.tag = "UnsupportedData" -> 1003
      [] c.tag = "Reserved" -> 1004
      [] c.tag = "NoStatusReceived" -> 1005
      [] c.tag = "Abnormal" -> 1006
      [] c.tag = "InvalidFramePayloadData" -> 1007
      [] c.tag = "PolicyViolation" -> 1008
      [] c.tag = "MessageTooBig" -> 1009
      [] c.tag = "MandatoryExtension" -> 1010
      [] c.tag = "InternalError" -> 1011
      [] c.tag = "ServiceRestart" -> 1012
      [] c.tag = "TryAgainLater" -> 1013
      [] c.tag = "BadGateway" -> 1014
      [] c.tag = "TlsHandshake" -> 1015
      [] c.tag \in {"Library", "Private"} -> c.code

\* CloseCode::try_from(value) on the u16 in enc_in
CloseCodeTryFrom ==
    /\ enc_out.by = "none"
    /\ enc_out' = [by |-> "try_from", res |-> CloseCode_try_from(enc_in.value)]
    /\ UNCHANGED << cpu_simd, enc_in >>
    /\ UNCHANGED readVars /\ UNCHANGED writeVars

\* u16::from(code) on the variant the parse gave
CloseCodeIntoU16 ==
    /\ enc_out.by = "try_from" /\ enc_out.res.ok
    /\ enc_out' = [by |-> "into_u16", variant |-> enc_out.res.variant,
                   u16 |-> CloseCode_into_u16(enc_out.res.variant)]
    /\ UNCHANGED << cpu_simd, enc_in >>
    /\ UNCHANGED readVars /\ UNCHANGED writeVars

\* CloseCode::try_from on that u16 again
CloseCodeBack ==
    /\ enc_out.by = "into_u16"
    /\ enc_out' = [by |-> "back", variant |-> enc_out.variant,
                   res |-> CloseCode_try_from(enc_out.u16)]
    /\ UNCHANGED << cpu_simd, enc_in >>
    /\ UNCHANGED readVars /\ UNCHANGED writeVars

NextCloseCode == CloseCodeTryFrom \/ CloseCodeIntoU16 \/ CloseCodeBack

---------------------------------------------------------------------------
(* The peer: what a server puts on the stream (RFC 6455 section 5.2,       *)
(* unmasked).  form is the length encoding it picks: 0 (7-bit), 2 or 8     *)
(* extension bytes; a server may pick a wider one than the length needs.   *)

ServerFrame(f) ==
    LET L == Len(f.data)
    IN  CASE f.form = 0 -> << FirstByte(f.fin, f.opcode), L >> \o f.data
          [] f.form = 2 -> << FirstByte(f.fin, f.opcode), 126 >>
                               \o ToBeBytes(L, 2) \o f.data
          [] f.form = 8 -> << FirstByte(f.fin, f.opcode), 127 >>
                               \o ToBeBytes(L, 8) \o f.data

PeerWire(fs) ==
    LET w[i \in 0..Len(fs)] == IF i = 0 THEN << >> ELSE w[i - 1] \o ServerFrame(fs[i])
    IN  w[Len(fs)]

PF(fin, opcode, form, data) ==
    [fin |-> fin, opcode |-> opcode, form |-> form, data |-> data]

\* valid frames a server sends: data and control, final and not, every
\* length encoding, payloads of 0 to 3 bytes
PeerFrameSet ==
    { PF(TRUE,  Text,         0, << 72, 105 >>),
      PF(FALSE, Binary,       0, << 1 >>),
      PF(TRUE,  Continuation, 2, << 2, 3, 4 >>),
      PF(TRUE,  Binary,       8, << 5 >>),
      PF(TRUE,  Ping,         0, << >>),
      PF(TRUE,  Pong,         0, << 6, 7 >>),
      PF(TRUE,  Close,        0, << >>),
      PF(TRUE,  Close,        0, << 3, 232 >>) }

\* frames per stream
MaxFrames == 2

SeqsUpTo(S, n) == UNION { [1..k -> S] : k \in 0..n }

\* read_buffer_capacity of the Config: whole chunks, a chunk plus little
\* room, where a few buffered bytes already leave less than a chunk free, and
\* less than a chunk
ReadCapacities == { 100, CHUNK_SIZE + 3, 2 * CHUNK_SIZE }

InitCommon ==
    /\ outgoing = << >>
    /\ read_consumed = 0
    /\ write_buffer = VecWithCapacity(DefaultCapacity)
    /\ pc = "idle"
    /\ pending = FALSE
    /\ taken = VecNew
    /\ b1 = 0 /\ b2 = 0 /\ length = 0
    /\ rd_result = NoResult(FALSE)
    /\ wpc = "idle"
    /\ dst = VecNew
    /\ wr_result = NoWrite(FALSE)
    /\ n_returned = 0
    /\ frame_start = 0
    /\ read_since_hdr = FALSE
    /\ eof_seen = FALSE
    /\ close_seen = FALSE
    /\ failed = FALSE
    /\ rd_history = << >>
    /\ sent = << >>
    /\ cpu_simd = FALSE
    /\ enc_in = NoEncInput
    /\ enc_out = NotEncoded

\* a client on a stream of valid frames, driven by read_frame alone
InitRead ==
    /\ InitCommon
    /\ write_rng = << 10, 241, 34, 51 >>
    /\ peer_frames \in SeqsUpTo(PeerFrameSet, MaxFrames)
    /\ incoming = PeerWire(peer_frames)
    /\ \E c \in ReadCapacities : read_buffer = VecWithCapacity(c)

ReadSpec == InitRead /\ [][NextRead]_vars

\* a client on a stream that opens with any two header bytes: every value of
\* the first byte, and in the second the MASK bit with each boundary value of
\* the 7-bit length; what follows lets every accepted header find its
\* extended length and payload, or is missing altogether
HdrSecondBytes == { m * 128 + l : m \in {0, 1}, l \in {0, 1, 2, 125, 126, 127} }

HdrTails == { << >>, << 0, 0, 0, 0, 0, 0, 0, 2, 137, 0, 65 >> }

InitHdr ==
    /\ InitCommon
    /\ write_rng = << 10, 241, 34, 51 >>
    /\ peer_frames = << >>
    /\ \E x \in Byte, y \in HdrSecondBytes, t \in HdrTails : incoming = << x, y >> \o t
    /\ read_buffer = VecWithCapacity(DefaultCapacity)

HdrSpec == InitHdr /\ [][NextRead]_vars

\* the segment boundaries of a long stream: offsets at which the bytes the
\* peer wrote reach the client in separate reads
BulkCuts == { CHUNK_SIZE, CHUNK_SIZE + 1 }

\* read_extend completes on a long stream: with as many bytes as it asked
\* for, or with those up to the next segment boundary
ReadExtendSegment ==
    /\ pending
    /\ LET avail == Min(CHUNK_SIZE, Len(incoming))
           d     == Len(PeerWire(peer_frames)) - Len(incoming)
       IN  \E n \in {avail} \cup { c - d : c \in { k \in BulkCuts : k > d /\ k - d <= avail } } :
              /\ read_buffer' = [data |-> taken.data \o SubSeq(incoming, 1, n),
                                 cap  |-> Reserve(taken, CHUNK_SIZE).cap]
              /\ incoming' = SubSeq(incoming, n + 1, Len(incoming))
              /\ eof_seen' = (eof_seen \/ n = 0)
    /\ taken' = VecNew
    /\ pending' = FALSE
    /\ UNCHANGED << read_consumed, pc, b1, b2, length, rd_result, peer_frames,
                    n_returned, frame_start, read_since_hdr, close_seen, failed >>
    /\ UNCHANGED rd_history
    /\ UNCHANGED writeVars /\ UNCHANGED encVars

\* read_frame on a long stream
NextBulk ==
    \/ ReadFrame
    \/ EnsureReadTake
    \/ ReadExtendSegment
    \/ ReadExtendErr
    \/ ParseHeader
    \/ ParseExt16
    \/ ParseExt64
    \/ ReturnFrame

\* a client with two chunks of receive buffer on a long stream: frames that
\* fill a chunk exactly between short ones
BulkCapacity == 2 * CHUNK_SIZE

BulkFrameSet ==
    { PF(TRUE, Binary, 2, [i \in 1..(CHUNK_SIZE - 4) |-> i % 251]),
      PF(TRUE, Text,   0, << 72, 105 >>),
      PF(TRUE, Binary, 8, << 5 >>) }

\* frames per long stream
MaxBulkFrames == 3

InitBulk ==
    /\ InitCommon
    /\ write_rng = << 10, 241, 34, 51 >>
    /\ peer_frames \in SeqsUpTo(BulkFrameSet, MaxBulkFrames)
    /\ incoming = PeerWire(peer_frames)
    /\ read_buffer = VecWithCapacity(BulkCapacity)

BulkSpec == InitBulk /\ [][NextBulk]_vars

---------------------------------------------------------------------------
(* read_frame on a 64-bit target with the index arithmetic at its width:   *)
(* a usize is kept as its 8 bytes, most significant first, so that every   *)
(* length of the 8-byte form is a value of the model.                      *)

\* a small number as a usize
WordOf(n) == ToBeBytes(n, 8)

\* a + b on usize: the wrapped sum and whether the addition overflowed
WordAdd(a, b) ==
    LET carry[i \in 0..8] ==
            IF i = 0 THEN 0 ELSE (a[9 - i] + b[9 - i] + carry[i - 1]) \div 256
    IN  [sum      |-> [i \in 1..8 |-> (a[i] + b[i] + carry[8 - i]) % 256],
         overflow |-> carry[8] = 1]

\* a < b on usize
WordLess(a, b) ==
    \E i \in 1..8 : a[i] < b[i] /\ \A j \in 1..(i - 1) : a[j] = b[j]

\* a usize that is known to be an index of the buffer
WordToInt(a) == FromBeBytes(SubSeq(a, 5, 8))

\* the end index `self.read_consumed + len` of client.rs:201 and 193
EndIndex(len) == WordAdd(WordOf(read_consumed), len)

\* the argument of the pending ensure_read as a usize
NeedWord == IF pc = "payload" THEN length ELSE WordOf(Need)

\* ensure_read finds the buffer short of consumed + len and hands it to
\* read_extend
EnsureReadWord ==
    /\ pc \in {"header", "ext64", "payload"} /\ ~pending
    /\ ~EndIndex(NeedWord).overflow
    /\ WordLess(WordOf(Len(read_buffer.data)), EndIndex(NeedWord).sum)
    /\ taken' = read_buffer
    /\ read_buffer' = VecNew
    /\ pending' = TRUE
    /\ read_since_hdr' = (read_since_hdr \/ pc # "header")
    /\ UNCHANGED << incoming, read_consumed, pc, b1, b2, length, rd_result,
                    peer_frames, n_returned, frame_start, eof_seen, close_seen,
                    failed >>
    /\ UNCHANGED rd_history
    /\ UNCHANGED writeVars /\ UNCHANGED encVars

\* client.rs:174-185 with `u64::from_be_bytes(bytes) as usize` at 64 bits
ParseExt64Word ==
    /\ pc = "ext64" /\ ~pending
    /\ ~MustRead(read_buffer, read_consumed, 8)
    /\ length' = SubSeq(read_buffer.data, read_consumed + 1, read_consumed + 8)
    /\ read_consumed' = read_consumed + 8
    /\ pc' = "payload"
    /\ UNCHANGED << incoming, read_buffer, pending, taken, b1, b2, rd_result,
                    peer_frames, n_returned, frame_start, read_since_hdr,
                    eof_seen, close_seen, failed >>
    /\ UNCHANGED rd_history
    /\ UNCHANGED writeVars /\ UNCHANGED encVars

\* client.rs:191-196 when consumed + length fits the word and the buffer
\* reaches that far
ReturnFrameWord ==
    /\ pc = "payload" /\ ~pending
    /\ ~EndIndex(length).overflow
    /\ ~WordLess(WordOf(Len(read_buffer.data)), EndIndex(length).sum)
    /\ LET end == WordToInt(EndIndex(length).sum)
       IN  /\ rd_result' = Result("frame", HdrFin(b1), HdrOpcode(b1),
                                  SubSeq(read_buffer.data, read_consumed + 1, end),
                                  "", rd_result.after_close)
           /\ read_consumed' = end
    /\ pc' = "idle"
    /\ n_returned' = n_returned + 1
    /\ close_seen' = (close_seen \/ HdrOpcode(b1) = Close)
    /\ rd_history' = Append(rd_history, Returned("frame", HdrFin(b1), HdrOpcode(b1)))
    /\ UNCHANGED << incoming, read_buffer, pending, taken, b1, b2, length,
                    peer_frames, frame_start, read_since_hdr, eof_seen, failed >>
    /\ UNCHANGED writeVars /\ UNCHANGED encVars

OverflowMsg == "attempt to add with overflow"
SliceOrderMsg == "slice index starts after its end"

\* consumed + length exceeds the word in a build with overflow checks (the
\* dev profile): the addition of client.rs:201 panics
AddOverflowPanics ==
    /\ pc = "payload" /\ ~pending
    /\ EndIndex(length).overflow
    /\ pc' = "panicked"
    /\ rd_result' = Result("panic", FALSE, 0, << >>, OverflowMsg,
                           rd_result.after_close)
    /\ failed' = TRUE
    /\ UNCHANGED << incoming, read_buffer, read_consumed, pending, taken, b1,
                    b2, length, peer_frames, n_returned, frame_start,
                    read_since_hdr, eof_seen, close_seen >>
    /\ UNCHANGED rd_history
    /\ UNCHANGED writeVars /\ UNCHANGED encVars

\* the same in a build without overflow checks (the release profile): the
\* sum wraps, ensure_read finds the buffer long enough for the wrapped end
\* and returns, and the slice of client.rs:193 is taken with that end
AddOverflowWraps ==
    /\ pc = "payload" /\ ~pending
    /\ EndIndex(length).overflow
    /\ ~WordLess(WordOf(Len(read_buffer.data)), EndIndex(length).sum)
    /\ LET end == EndIndex(length).sum
       IN  IF WordLess(end, WordOf(read_consumed))
           THEN /\ pc' = "panicked"
                /\ rd_result' = Result("panic", FALSE, 0, << >>, SliceOrderMsg,
                                       rd_result.after_close)
                /\ failed' = TRUE
                /\ UNCHANGED << read_consumed, n_returned, close_seen, rd_history >>
           ELSE /\ pc' = "idle"
                /\ rd_result' = Result("frame", HdrFin(b1), HdrOpcode(b1),
                                       SubSeq(read_buffer.data, read_consumed + 1,
                                              WordToInt(end)),
                                       "", rd_result.after_close)
                /\ read_consumed' = WordToInt(end)
                /\ n_returned' = n_returned + 1
                /\ close_seen' = (close_seen \/ HdrOpcode(b1) = Close)
                /\ rd_history' = Append(rd_history,
                                        Returned("frame", HdrFin(b1), HdrOpcode(b1)))
                /\ UNCHANGED failed
    /\ UNCHANGED << incoming, read_buffer, pending, taken, b1, b2, length,
                    peer_frames, frame_start, read_since_hdr, eof_seen >>
    /\ UNCHANGED writeVars /\ UNCHANGED encVars

NextWord ==
    \/ ReadFrame
    \/ EnsureReadWord
    \/ ReadExtendOk
    \/ ParseHeader
    \/ ParseExt64Word
    \/ ReturnFrameWord
    \/ AddOverflowPanics
    \/ AddOverflowWraps

\* 8-byte lengths a peer declares: 1 and 3, 2^63, 2^64 - 11 (the largest that
\* fits behind the 10 bytes of header and length), 2^64 - 10 and 2^64 - 1
WordLengths ==
    { << 0, 0, 0, 0, 0, 0, 0, 1 >>,
      << 0, 0, 0, 0, 0, 0, 0, 3 >>,
      << 128, 0, 0, 0, 0, 0, 0, 0 >>,
      << 255, 255, 255, 255, 255, 255, 255, 245 >>,
      << 255, 255, 255, 255, 255, 255, 255, 246 >>,
      << 255, 255, 255, 255, 255, 255, 255, 255 >> }

\* the payload bytes that follow on the stream
WordTails == { << >>, << 7 >>, << 8, 9, 10 >> }

\* a data frame in the 8-byte form: Binary or Text, final or not
WordFirstBytes == { 128 + Binary, 128 + Text, Binary }

InitWord ==
    /\ InitCommon
    /\ write_rng = << 10, 241, 34, 51 >>
    /\ peer_frames = << >>
    /\ \E x \in WordFirstBytes, l \in WordLengths, t \in WordTails :
          incoming = << x, 127 >> \o l \o t
    /\ read_buffer = VecWithCapacity(DefaultCapacity)

WordSpec == InitWord /\ [][NextWord]_vars

\* the whole client: read_frame and the sends, on short streams that carry
\* a Close frame
ClientStreams ==
    { << PF(TRUE, Close, 0, << >>) >>,
      << PF(TRUE, Close, 0, << 3, 232 >>) >>,
      << PF(TRUE, Text, 0, << 72, 105 >>), PF(TRUE, Close, 0, << >>) >>,
      << PF(TRUE, Continuation, 2, << 2, 3, 4 >>), PF(TRUE, Binary, 8, << 5 >>) >> }

RngSeeds == { << 10, 241, 34, 51 >>, << 255, 0, 128, 7 >> }

Init ==
    /\ InitCommon
    /\ write_rng \in RngSeeds
    /\ peer_frames \in ClientStreams
    /\ incoming = PeerWire(peer_frames)
    /\ read_buffer = VecWithCapacity(DefaultCapacity)

Next == NextRead \/ NextWrite

Spec == Init /\ [][Next]_vars

\* the same client on two-frame streams without a Close frame, so that calls
\* of both halves alternate while frames are still buffered
DuplexStreams ==
    { << PF(TRUE, Text, 0, << 72, 105 >>), PF(TRUE, Binary, 8, << 5 >>) >>,
      << PF(TRUE, Continuation, 2, << 2, 3, 4 >>), PF(TRUE, Pong, 0, << 6, 7 >>) >> }

InitDuplex ==
    /\ InitCommon
    /\ write_rng \in RngSeeds
    /\ peer_frames \in DuplexStreams
    /\ incoming = PeerWire(peer_frames)
    /\ read_buffer = VecWithCapacity(DefaultCapacity)

\* read_frame, and of the sends one that goes through encode and one that
\* goes through encode_control
NextDuplex ==
    \/ NextRead
    \/ send_text
    \/ write_control_frame
    \/ WriteAllOk
    \/ WriteAllErr

DuplexSpec == InitDuplex /\ [][NextDuplex]_vars

\* write_buffer_capacity of the Config: the default, and one so small that
\* the first frame already makes the scratch buffer grow
WriteCapacities == { 4, DefaultCapacity }

\* a client driven by the sends alone, on either kind of CPU
InitWrite ==
    /\ outgoing = << >>
    /\ read_consumed = 0
    /\ \E c \in WriteCapacities : write_buffer = VecWithCapacity(c)
    /\ write_rng \in RngSeeds
    /\ pc = "idle" /\ pending = FALSE /\ taken = VecNew
    /\ b1 = 0 /\ b2 = 0 /\ length = 0
    /\ rd_result = NoResult(FALSE)
    /\ wpc = "idle" /\ dst = VecNew /\ wr_result = NoWrite(FALSE)
    /\ peer_frames = << >> /\ incoming = << >>
    /\ read_buffer = VecWithCapacity(DefaultCapacity)
    /\ n_returned = 0 /\ frame_start = 0
    /\ read_since_hdr = FALSE /\ eof_seen = FALSE /\ close_seen = FALSE
    /\ failed = FALSE /\ rd_history = << >> /\ sent = << >>
    /\ cpu_simd \in BOOLEAN
    /\ enc_in = NoEncInput
    /\ enc_out = NotEncoded

WriteSpec == InitWrite /\ [][NextWrite]_vars

\* payloads past the 125 bytes of a control frame: some that take the 2-byte
\* length and one that takes the 8-byte length
LongSendData == { [i \in 1..len |-> i % 255] : len \in {126, 127, 300, 1000} }

HugeSendData == { [i \in 1..65536 |-> (255 - 7 * i) % 256] }

\* the caller makes no further send once it has called send_close
NoCloseSent == \A k \in 1..Len(sent) : sent[k].opcode # Close

\* the control helpers called with such payloads
send_ping_long ==
    /\ NoCloseSent
    /\ \E data \in LongSendData : StartWrite(Frame(TRUE, Ping, data), FALSE)

send_pong_long ==
    /\ NoCloseSent
    /\ \E data \in LongSendData : StartWrite(Frame(TRUE, Pong, data), FALSE)

send_close_long ==
    /\ NoCloseSent
    /\ \E data \in LongSendData \cup HugeSendData :
          StartWrite(Frame(TRUE, Close, data), FALSE)

NextLongSend ==
    \/ send_ping_long
    \/ send_pong_long
    \/ send_close_long
    \/ WriteAllOk
    \/ WriteAllErr

\* a client whose peer has sent a Ping, on either kind of CPU; only the
\* sends are exercised
InitLongSend ==
    /\ InitCommon
    /\ write_rng \in RngSeeds
    /\ peer_frames = << PF(TRUE, Ping, 0, << >>) >>
    /\ incoming = PeerWire(peer_frames)
    /\ read_buffer = VecWithCapacity(DefaultCapacity)

LongSendSpec == InitLongSend /\ [][NextLongSend]_vars

\* payloads for the codec: the benchmark's pattern src[i] = (i + 1) % 255 and
\* a second one whose bytes have the high bits set
Pattern(k, len) ==
    [i \in 1..len |-> IF k = 0 THEN i % 255 ELSE (255 - 7 * i) % 256]

\* what dst holds before the call: nothing, a few bytes, more bytes than any
\* short frame
Junk(len) == [data |-> [i \in 1..len |-> (3 * i + 170) % 256], cap |-> len]

EncMasks == { << 10, 241, 34, 51 >>, << 0, 0, 0, 0 >>, << 255, 128, 1, 90 >> }

EncIn(fin, opcode, data, mask, v) ==
    [fin |-> fin, opcode |-> opcode, data |-> data, mask |-> mask, dst |-> v]

EncInputs ==
    { EncIn(fin, opcode, Pattern(0, len), mask, v) :
        fin \in BOOLEAN, opcode \in Opcodes, len \in {0, 5},
        mask \in { << 10, 241, 34, 51 >>, << 255, 128, 1, 90 >> },
        v \in { VecNew, Junk(200) } }
    \cup
    { EncIn(TRUE, opcode, Pattern(k, len), mask, v) :
        opcode \in {Binary, Ping}, k \in {0, 1},
        len \in {1, 4, 16, 17, 33, 125, 126, 127, 300},
        mask \in EncMasks, v \in { VecNew, Junk(3), Junk(200) } }
    \cup
    { EncIn(TRUE, Binary, Pattern(0, len), << 10, 241, 34, 51 >>, v) :
        len \in {65535, 65536}, v \in { Junk(200) } }

EncInit ==
    /\ outgoing = << >>
    /\ read_consumed = 0
    /\ write_buffer = VecWithCapacity(DefaultCapacity)
    /\ write_rng = << 10, 241, 34, 51 >>
    /\ pc = "idle" /\ pending = FALSE /\ taken = VecNew
    /\ b1 = 0 /\ b2 = 0 /\ length = 0
    /\ rd_result = NoResult(FALSE)
    /\ wpc = "idle" /\ dst = VecNew /\ wr_result = NoWrite(FALSE)
    /\ peer_frames = << >> /\ incoming = << >>
    /\ read_buffer = VecWithCapacity(DefaultCapacity)
    /\ n_returned = 0 /\ frame_start = 0
    /\ read_since_hdr = FALSE /\ eof_seen = FALSE /\ close_seen = FALSE
    /\ failed = FALSE /\ rd_history = << >> /\ sent = << >>
    /\ cpu_simd \in BOOLEAN
    /\ enc_in \in EncInputs
    /\ enc_out = NotEncoded

EncSpec == EncInit /\ [][NextEnc]_vars

\* payloads for the kernels: every length up to two blocks and a tail, then
\* lengths around three and four blocks
MaskLens == (0..40) \cup {47, 48, 49, 63, 64, 65}

MaskInputs ==
    { EncIn(TRUE, Binary, Pattern(k, len), mask, VecNew) :
        k \in {0, 1}, len \in MaskLens, mask \in EncMasks }

MaskInit ==
    /\ outgoing = << >>
    /\ read_consumed = 0
    /\ write_buffer = VecWithCapacity(DefaultCapacity)
    /\ write_rng = << 10, 241, 34, 51 >>
    /\ pc = "idle" /\ pending = FALSE /\ taken = VecNew
    /\ b1 = 0 /\ b2 = 0 /\ length = 0
    /\ rd_result = NoResult(FALSE)
    /\ wpc = "idle" /\ dst = VecNew /\ wr_result = NoWrite(FALSE)
    /\ peer_frames = << >> /\ incoming = << >>
    /\ read_buffer = VecWithCapacity(DefaultCapacity)
    /\ n_returned = 0 /\ frame_start = 0
    /\ read_since_hdr = FALSE /\ eof_seen = FALSE /\ close_seen = FALSE
    /\ failed = FALSE /\ rd_history = << >> /\ sent = << >>
    /\ cpu_simd \in BOOLEAN
    /\ enc_in \in MaskInputs
    /\ enc_out = NotEncoded

MaskSpec == MaskInit /\ [][NextMask]_vars

\* a conversion or classification on its own: everything of the client at
\* rest, the argument in enc_in
ConvInit(values) ==
    /\ outgoing = << >>
    /\ read_consumed = 0
    /\ write_buffer = VecWithCapacity(DefaultCapacity)
    /\ write_rng = << 10, 241, 34, 51 >>
    /\ pc = "idle" /\ pending = FALSE /\ taken = VecNew
    /\ b1 = 0 /\ b2 = 0 /\ length = 0
    /\ rd_result = NoResult(FALSE)
    /\ wpc = "idle" /\ dst = VecNew /\ wr_result = NoWrite(FALSE)
    /\ peer_frames = << >> /\ incoming = << >>
    /\ read_buffer = VecWithCapacity(DefaultCapacity)
    /\ n_returned = 0 /\ frame_start = 0
    /\ read_since_hdr = FALSE /\ eof_seen = FALSE /\ close_seen = FALSE
    /\ failed = FALSE /\ rd_history = << >> /\ sent = << >>
    /\ cpu_simd = FALSE
    /\ \E x \in values : enc_in = [value |-> x]
    /\ enc_out = NotEncoded

\* every u8
OpcodeInit == ConvInit(Byte)

OpcodeSpec == OpcodeInit /\ [][NextOpcode]_vars

\* every u16
U16 == 0..65535

CloseCodeInit == ConvInit(U16)

CloseCodeSpec == CloseCodeInit /\ [][NextCloseCode]_vars

---------------------------------------------------------------------------
(* Properties.                                                             *)

ControlOpcodes == {Close, Ping, Pong}

\* the header in b1, b2 is the one the current or last call parsed
HeaderParsed ==
    \/ pc \in {"ext16", "ext64", "payload"}
    \/ rd_result.kind \in {"frame", "violation"}

\* C1: every frame read_frame returns has RSV1-3 zero, the MASK bit clear and
\* one of the six defined opcodes; a control frame has FIN set and at most
\* 125 payload bytes; a Close frame never has exactly 1 payload byte.
C1_ReturnedFrameObeysHeaderRules ==
    rd_result.kind = "frame" =>
        /\ HdrRsv(b1) = 0
        /\ ~HdrMasked(b2)
        /\ rd_result.opcode = HdrOpcode(b1)
        /\ rd_result.fin = HdrFin(b1)
        /\ rd_result.opcode \in {Continuation, Text, Binary, Close, Ping, Pong}
        /\ (rd_result.opcode \in ControlOpcodes =>
                rd_result.fin /\ Len(rd_result.data) <= 125)
        /\ (rd_result.opcode = Close => Len(rd_result.data) # 1)

\* a Close frame with a two-byte payload has been returned
C1_Witness ==
    /\ rd_result.kind = "frame"
    /\ rd_result.opcode = Close
    /\ Len(rd_result.data) = 2

\* the six rules as the specification numbers them
BrokenRules(x, y) ==
    { r \in 1..6 :
        \/ r = 1 /\ HdrRsv(x) # 0
        \/ r = 2 /\ HdrMasked(y)
        \/ r = 3 /\ HdrOpcode(x) \in ReservedOpcodes
        \/ r = 4 /\ HdrOpcode(x) \in ControlOpcodes /\ HdrLen(y) > 125
        \/ r = 5 /\ HdrOpcode(x) \in ControlOpcodes /\ ~HdrFin(x)
        \/ r = 6 /\ HdrOpcode(x) = Close /\ HdrLen(y) = 1 }

RuleMsg(r) ==
    CASE r = 1 -> RsvMsg
      [] r = 2 -> MaskedMsg
      [] r = 3 -> ReservedMsg
      [] r = 4 -> ControlLenMsg
      [] r = 5 -> ControlFinMsg
      [] r = 6 -> CloseLen1Msg

\* C2: a header that breaks exactly one of the six rules makes read_frame
\* return ProtocolViolation with that rule's message and no frame; a Close
\* header with length 0 (FIN set, nothing else wrong) is accepted and returned
\* with empty data.
C2_OneBrokenRuleGivesItsMessage ==
    HeaderParsed =>
        /\ \A r \in 1..6 :
              BrokenRules(b1, b2) = {r} =>
                  /\ pc = "idle"
                  /\ rd_result.kind = "violation"
                  /\ rd_result.msg = RuleMsg(r)
        /\ (/\ pc = "idle"
            /\ BrokenRules(b1, b2) = {}
            /\ HdrOpcode(b1) = Close
            /\ HdrLen(b2) = 0)
           => /\ rd_result.kind = "frame"
              /\ rd_result.opcode = Close
              /\ rd_result.data = << >>

\* a control header whose only fault is a 7-bit length field of 127 has been
\* refused for its size
C2_Witness ==
    /\ rd_result.kind = "violation"
    /\ rd_result.msg = ControlLenMsg
    /\ BrokenRules(b1, b2) = {4}
    /\ HdrLen(b2) = 127

\* C3 as stated: a header with the MASK bit set makes read_frame fail with the
\* "should be unmasked" violation, the watermark stays at the end of the two
\* header bytes and no stream read follows the header.
C3_MaskedAlwaysUnmaskedMessage ==
    (HeaderParsed /\ HdrMasked(b2)) =>
        /\ pc = "idle"
        /\ rd_result.kind = "violation"
        /\ rd_result.msg = MaskedMsg
        /\ read_consumed = frame_start + HEADER_LEN
        /\ ~read_since_hdr

\* C3 (amended): a header with the MASK bit set makes read_frame fail with a
\* ProtocolViolation, which is the "should be unmasked" one when the RSV bits
\* are zero and the "Reserve bit" one when they are not; in both cases the
\* watermark stays at the end of the two header bytes and no stream read
\* follows the header.
C3_MaskedRefusedPayloadUntouched ==
    (HeaderParsed /\ HdrMasked(b2)) =>
        /\ pc = "idle"
        /\ rd_result.kind = "violation"
        /\ rd_result.msg = (IF HdrRsv(b1) = 0 THEN MaskedMsg ELSE RsvMsg)
        /\ read_consumed = frame_start + HEADER_LEN
        /\ ~read_since_hdr

\* a masked header with a payload behind it has been refused while payload
\* bytes of that frame were still undelivered or unparsed
C3_Witness ==
    /\ rd_result.kind = "violation"
    /\ rd_result.msg = MaskedMsg
    /\ HdrMasked(b2) /\ HdrLen(b2) = 2
    /\ Len(read_buffer.data) - read_consumed + Len(incoming) >= 2

IsPrefix(a, b) == Len(a) <= Len(b) /\ a = SubSeq(b, 1, Len(a))

\* the bytes received and not yet parsed, then those not yet delivered
Unparsed ==
    SubSeq(read_buffer.data, read_consumed + 1, Len(read_buffer.data)) \o incoming

\* C4: on a stream of valid frames, however the stream cuts it into reads and
\* as long as no call has failed, the k-th frame read_frame returns is the
\* k-th frame of the stream (fin, opcode and payload), and what is left
\* unparsed is exactly the encoding of the frames after it (or, when the
\* stream ended early, the part of it that arrived).
C4_FramesInWireOrder ==
    (rd_result.kind = "frame" /\ ~failed) =>
        /\ n_returned <= Len(peer_frames)
        /\ rd_result.fin = peer_frames[n_returned].fin
        /\ rd_result.opcode = peer_frames[n_returned].opcode
        /\ rd_result.data = peer_frames[n_returned].data
        /\ IsPrefix(Unparsed,
                    PeerWire(SubSeq(peer_frames, n_returned + 1, Len(peer_frames))))

\* the second frame has been returned by a call that compacted the buffer and
\* then had to wait for a further read after parsing the header
C4_Witness ==
    /\ rd_result.kind = "frame" /\ ~failed
    /\ n_returned = 2
    /\ frame_start = 0
    /\ read_since_hdr
    /\ Len(rd_result.data) > 0

\* C5 as stated: 0 <= consumed <= length of the client's receive buffer in
\* every reachable state, the suspension points of read_frame included.
C5_ConsumedWithinClientBuffer ==
    /\ 0 <= read_consumed
    /\ read_consumed <= Len(read_buffer.data)

\* the receive buffer, wherever it is: with the stream while a read is
\* awaited, in the client otherwise
ReceiveBuffer == IF pending THEN taken ELSE read_buffer

\* C5 (amended): 0 <= consumed <= length holds of the receive buffer in every
\* reachable state, where during an awaited stream read the receive buffer is
\* the one handed to the stream; the client's own read_buffer field is empty
\* for that time, and holds the buffer again as soon as the read returns,
\* with a result or with an error.
C5_ConsumedWithinReceiveBuffer ==
    /\ 0 <= read_consumed
    /\ read_consumed <= Len(ReceiveBuffer.data)
    /\ (pending => read_buffer = VecNew)
    /\ (~pending => taken = VecNew)

\* a call has failed with an I/O error after a header was consumed
C5_Witness ==
    /\ rd_result.kind = "io"
    /\ read_consumed > 0
    /\ read_consumed = Len(read_buffer.data)

\* C6: once a read_extend of the current call has returned 0 bytes (end of
\* stream before the awaited bytes were there), the call is over and has
\* returned an I/O error.
C6_EofEndsTheCall ==
    eof_seen => (pc = "idle" /\ rd_result.kind = "io")

\* C7: once read_frame has returned a Close frame, every read_frame and every
\* send called after it returns Error::Closed.
C7_ClosedAfterClose ==
    /\ (rd_result.after_close /\ rd_result.kind # "none") => rd_result.kind = "closed"
    /\ (wr_result.after_close /\ wr_result.kind # "none") => wr_result.kind = "closed"

\* the frame layout as section 4.2 of the specification tabulates it
WireFirstByte(fin, opcode) == (IF fin THEN 128 ELSE 0) + opcode

WireHeader(fin, opcode, L, mask) ==
    IF L <= 125 THEN << WireFirstByte(fin, opcode), 128 + L >> \o mask
    ELSE IF L <= 65535
         THEN << WireFirstByte(fin, opcode), 128 + 126, L \div 256, L % 256 >> \o mask
    ELSE << WireFirstByte(fin, opcode), 128 + 127, 0, 0, 0, 0,
            (L \div 16777216) % 256, (L \div 65536) % 256, (L \div 256) % 256,
            L % 256 >> \o mask

WirePayload(data, mask) ==
    [i \in 1..Len(data) |-> Xor(data[i], mask[((i - 1) % 4) + 1])]

\* C8: encode leaves in dst exactly the narrowest header for the payload
\* length (6, 8 or 14 bytes, b0 = FIN << 7 | opcode, the MASK bit set, the
\* length big-endian, the mask key) followed by data[i] XOR mask[i mod 4],
\* whatever dst held before the call.
C8_EncodeLayout ==
    enc_out.by = "encode" =>
        LET L == Len(enc_in.data)
        IN  /\ enc_out.vec.data =
                   WireHeader(enc_in.fin, enc_in.opcode, L, enc_in.mask)
                   \o WirePayload(enc_in.data, enc_in.mask)
            /\ Len(enc_out.vec.data) =
                   (IF L <= 125 THEN 6 ELSE IF L <= 65535 THEN 8 ELSE 14) + L

\* a 65536-byte payload has been encoded into a dst that held other bytes
C8_Witness ==
    /\ enc_out.by = "encode"
    /\ Len(enc_in.data) = 65536
    /\ Len(enc_in.dst.data) > 0
    /\ Len(enc_out.vec.data) = 65550

\* C9: for a payload of at most 125 bytes encode_control leaves in dst exactly
\* 6 + data.len() bytes: FIN << 7 | opcode, 0x80 | data.len(), the mask key,
\* then data[i] XOR mask[i mod 4], whatever dst held before the call.
C9_EncodeControlLayout ==
    (enc_out.by = "encode_control" /\ Len(enc_in.data) <= 125) =>
        /\ Len(enc_out.vec.data) = 6 + Len(enc_in.data)
        /\ enc_out.vec.data[1] = WireFirstByte(enc_in.fin, enc_in.opcode)
        /\ enc_out.vec.data[2] = 128 + Len(enc_in.data)
        /\ SubSeq(enc_out.vec.data, 3, 6) = enc_in.mask
        /\ \A i \in 1..Len(enc_in.data) :
              enc_out.vec.data[6 + i] =
                  Xor(enc_in.data[i], enc_in.mask[((i - 1) % 4) + 1])

\* a 125-byte payload has been encoded into a dst that held 200 bytes
C9_Witness ==
    /\ enc_out.by = "encode_control"
    /\ Len(enc_in.data) = 125
    /\ Len(enc_in.dst.data) = 200
    /\ Len(enc_out.vec.data) = 131

NotAFrame == [ok |-> FALSE, fin |-> FALSE, opcode |-> 0, data |-> << >>]

\* a receiver's parse of a masked frame: the first byte, the 7-bit length and
\* its 0, 2 or 8 extension bytes, the mask key, the payload unmasked with it
ParseMasked(bytes) ==
    LET n    == Len(bytes)
        len7 == IF n >= 2 THEN bytes[2] % 128 ELSE 0
        ext  == IF len7 = 126 THEN 2 ELSE IF len7 = 127 THEN 8 ELSE 0
    IN  IF n < 2 + ext + 4 \/ bytes[2] < 128 THEN NotAFrame
        ELSE IF ext = 8 /\ SubSeq(bytes, 3, 7) # << 0, 0, 0, 0, 0 >> THEN NotAFrame
        ELSE LET L == IF ext = 0 THEN len7
                      ELSE FromBeBytes(SubSeq(bytes, 3, 2 + ext))
                 key == SubSeq(bytes, 3 + ext, 6 + ext)
             IN  IF n # 2 + ext + 4 + L THEN NotAFrame
                 ELSE [ok     |-> TRUE,
                       fin    |-> bytes[1] >= 128,
                       opcode |-> bytes[1] % 16,
                       data   |-> [i \in 1..L |->
                                     Xor(bytes[6 + ext + i], key[((i - 1) % 4) + 1])]]

\* C10: parsing what encode emitted gives back the frame's fin, opcode and
\* data.
C10_EncodeParseRoundTrip ==
    enc_out.by = "encode" =>
        ParseMasked(enc_out.vec.data) =
            [ok |-> TRUE, fin |-> enc_in.fin, opcode |-> enc_in.opcode,
             data |-> enc_in.data]

\* a frame with the 2-byte extended length has been encoded and parsed back
C10_Witness ==
    /\ enc_out.by = "encode"
    /\ Len(enc_in.data) = 300
    /\ ParseMasked(enc_out.vec.data).ok
    /\ Len(ParseMasked(enc_out.vec.data).data) = 300

\* C11: for every payload length (below 16, exactly 16, 16 or more with a
\* tail) and every mask, the chunked kernel and the dispatcher mask_data give
\* byte for byte what the scalar kernel dst[i] = src[i] XOR mask[i mod 4]
\* gives.
C11_SimdEqualsScalar ==
    enc_out.by \in {"mask_simd", "mask_data"} =>
        /\ enc_out.vec.data = mask_scalar(enc_in.data, enc_in.mask)
        /\ \A i \in 1..Len(enc_in.data) :
              enc_out.vec.data[i] = Xor(enc_in.data[i], enc_in.mask[((i - 1) % 4) + 1])

\* the chunked kernel has masked two blocks and a tail of 5 bytes with a key
\* of four different bytes
C11_Witness ==
    /\ enc_out.by = "mask_simd"
    /\ Len(enc_in.data) = 37
    /\ enc_in.mask = << 10, 241, 34, 51 >>
    /\ Len(enc_out.vec.data) = 37

\* C12: masking a payload twice with the same key gives back the payload.
C12_MaskTwiceIsIdentity ==
    enc_out.by = "unmask" => enc_out.vec.data = enc_in.data

\* a payload of a block and a tail has been masked twice with a nonzero key
\* that changed it the first time
C12_Witness ==
    /\ enc_out.by = "unmask"
    /\ Len(enc_in.data) = 17
    /\ enc_in.mask = << 255, 128, 1, 90 >>
    /\ mask_scalar(enc_in.data, enc_in.mask) # enc_in.data

\* the bytes of one send on the wire, as section 4.2 tabulates them
Wire(e) == WireHeader(e.fin, e.opcode, Len(e.data), e.mask)
               \o WirePayload(e.data, e.mask)

WireOfAll(es) ==
    LET w[i \in 0..Len(es)] == IF i = 0 THEN << >> ELSE w[i - 1] \o Wire(es[i])
    IN  w[Len(es)]

AllSendsOk == \A i \in 1..Len(sent) : sent[i].res = "ok"

\* C13: when every send so far has completed successfully, the stream has
\* received the encoded frames of the calls one after the other in call
\* order, each call having written exactly its own header and masked payload
\* (nothing of an earlier frame left in the reused scratch buffer).
C13_WritesInCallOrder ==
    AllSendsOk =>
        /\ outgoing = WireOfAll(sent)
        /\ \A i \in 1..Len(sent) : sent[i].wrote = Wire(sent[i])
        /\ write_buffer.data = (IF sent = << >> THEN << >> ELSE Wire(sent[Len(sent)]))

\* a 24-byte frame and then a 6-byte frame have been written from the same
\* scratch buffer
C13_Witness ==
    /\ AllSendsOk
    /\ Len(sent) = 2
    /\ Len(sent[1].data) = 18
    /\ Len(sent[2].data) = 0
    /\ Len(outgoing) = 30

\* C14: when write_all fails, the call returns the stream's error with the
\* scratch buffer back in the client (it still holds the frame that was being
\* written, in its allocation); the next send encodes into that buffer and,
\* when it succeeds, has written its own frame and nothing else.
C14_ErrorRestoresScratchBuffer ==
    /\ (wpc = "idle" /\ wr_result.kind = "io") =>
           /\ sent[Len(sent)].res = "io"
           /\ write_buffer.data = Wire(sent[Len(sent)])
           /\ write_buffer.cap >= Len(write_buffer.data)
           /\ dst = VecNew
    /\ \A i \in 2..Len(sent) :
           sent[i - 1].res = "io" =>
               /\ (sent[i].res = "pending" =>
                       /\ dst.data = Wire(sent[i])
                       /\ write_buffer = VecNew)
               /\ (sent[i].res = "ok" => sent[i].wrote = Wire(sent[i]))

\* a send of a 24-byte frame failed part-way and the next send, of a 6-byte
\* frame, succeeded
C14_Witness ==
    /\ Len(sent) = 2
    /\ sent[1].res = "io" /\ Len(sent[1].data) = 18 /\ Len(sent[1].wrote) = 23
    /\ sent[2].res = "ok" /\ Len(sent[2].data) = 0
    /\ wr_result.kind = "ok"
    /\ Len(outgoing) = 29

\* the generator's state after k draws from a seed
RngAfter(seed, k) ==
    LET st[i \in 0..k] == IF i = 0 THEN seed ELSE RngStep(st[i - 1])
    IN  st[k]

\* C15: every send draws exactly one value from the client's generator and
\* masks its frame with it: the key of the k-th frame is the k-th output of
\* the generator since construction, the generator has been advanced once per
\* send, and the key is the one that goes out in the frame's header.
C15_MaskIsKthRngOutput ==
    \E seed \in RngSeeds :
        /\ write_rng = RngAfter(seed, Len(sent))
        /\ \A k \in 1..Len(sent) :
              /\ sent[k].mask = RngOutput(RngAfter(seed, k - 1))
              /\ (sent[k].res = "ok" => SubSeq(sent[k].wrote, 3, 6) = sent[k].mask)
              /\ (sent[k].res = "pending" => SubSeq(dst.data, 3, 6) = sent[k].mask)

\* two frames have gone out, the second under a key other than the first's
C15_Witness ==
    /\ Len(sent) = 2
    /\ sent[1].res = "ok" /\ sent[2].res = "ok"
    /\ sent[1].control /\ ~sent[2].control
    /\ sent[2].mask # sent[1].mask
    /\ SubSeq(outgoing, Len(sent[1].wrote) + 3, Len(sent[1].wrote) + 6) = sent[2].mask

\* C16: for every x in 0..15, from_u8(x) succeeds, u8(from_u8(x)) = x, and no
\* other nibble maps to the variant x maps to.
C16_OpcodeRoundTrip ==
    /\ (enc_out.by = "try_from" /\ enc_in.value \in 0..15) =>
           /\ enc_out.res.ok
           /\ \A y \in 0..15 :
                 y # enc_in.value => Opcode_try_from(y) # enc_out.res
    /\ enc_out.by = "into_u8" =>
           /\ enc_in.value \in 0..15
           /\ enc_out.u8 = enc_in.value

\* 0xB has been parsed and converted back
C16_Witness ==
    /\ enc_out.by = "into_u8"
    /\ enc_in.value = 11
    /\ enc_out.variant = "ReservedB"
    /\ enc_out.u8 = 11

\* C17 as stated: is_control iff the high bit of the value is set, is_data iff
\* the value is 0, 1 or 2, and is_reserved iff neither of the two holds, so
\* that exactly one of the three holds of every opcode.
C17_ClassesPartition ==
    enc_out.by = "classify" =>
        /\ (enc_out.control <=> enc_in.value \in 8..15)
        /\ (enc_out.data <=> enc_in.value \in {0, 1, 2})
        /\ (enc_out.reserved <=> (~enc_out.control /\ ~enc_out.data))

\* C17 (amended): is_control iff the high bit of the value is set, is_data iff
\* the value is 0, 1 or 2, and is_reserved iff the value is neither a data
\* opcode nor Close, Ping or Pong, that is 0x3..0x7 or 0xB..0xF; every opcode
\* satisfies at least one of the three, is_data excludes the other two, and
\* 0xB..0xF satisfy both is_control and is_reserved.
C17_ClassesCoverWithOverlap ==
    enc_out.by = "classify" =>
        /\ (enc_out.control <=> enc_in.value \in 8..15)
        /\ (enc_out.data <=> enc_in.value \in {0, 1, 2})
        /\ (enc_out.reserved <=> enc_in.value \in (3..7) \cup (11..15))
        /\ (enc_out.control \/ enc_out.data \/ enc_out.reserved)
        /\ (enc_out.data => (~enc_out.control /\ ~enc_out.reserved))
        /\ ((enc_out.control /\ enc_out.reserved) <=> enc_in.value \in 11..15)

\* 0xB has been classified: a control opcode and a reserved one
C17_Witness ==
    /\ enc_out.by = "classify"
    /\ enc_in.value = 11
    /\ enc_out.control /\ enc_out.reserved /\ ~enc_out.data

\* C18: from_u16 gives a named variant for each of 1000..1015, Library(x) for
\* x in 3000..3999, Private(x) for x in 4000..4999 and InvalidCloseCode(x) for
\* every other u16; u16 of the variant is the value parsed, and parsing that
\* u16 gives the variant again.
C18_CloseCodeMapping ==
    /\ enc_out.by = "try_from" =>
           LET x == enc_in.value
           IN  /\ (x \in 1000..1015 =>
                       /\ enc_out.res.ok
                       /\ enc_out.res.variant.tag \in NamedCloseCodes)
               /\ (x \in 3000..3999 => enc_out.res = OkCloseCode(Library(x)))
               /\ (x \in 4000..4999 => enc_out.res = OkCloseCode(Private(x)))
               /\ (x \notin (1000..1015) \cup (3000..4999) =>
                       enc_out.res = InvalidCloseCode(x))
    /\ enc_out.by = "into_u16" => enc_out.u16 = enc_in.value
    /\ enc_out.by = "back" => enc_out.res = OkCloseCode(enc_out.variant)

\* 3999, the last Library code, has gone to Library(3999), to 3999 and back
C18_Witness ==
    /\ enc_out.by = "back"
    /\ enc_in.value = 3999
    /\ enc_out.variant = Library(3999)
    /\ enc_out.res.ok

\* where a receiver stands after the frames of a history: no fragmented
\* message open ("closed"), one open ("open"), or the sequence broken by a
\* Continuation with none open or a Text / Binary with one open ("broken");
\* control frames and refused headers leave it as it is
FragState(h) ==
    LET st[i \in 0..Len(h)] ==
            IF i = 0 THEN "closed"
            ELSE LET e == h[i]
                     p == st[i - 1]
                 IN  IF p = "broken" \/ e.kind # "frame" THEN p
                     ELSE IF e.opcode = Continuation
                          THEN IF p # "open" THEN "broken"
                               ELSE IF e.fin THEN "closed" ELSE "open"
                     ELSE IF e.opcode \in {Text, Binary}
                          THEN IF p = "open" THEN "broken"
                               ELSE IF e.fin THEN "closed" ELSE "open"
                     ELSE p
    IN  st[Len(h)]

\* C19: in the frames read_frame has returned, a Continuation comes only
\* while a fragmented message is open (after a Text or Binary with FIN clear,
\* before the Continuation with FIN set) and no Text or Binary comes while one
\* is open.
C19_FragmentsInSequence == FragState(rd_history) # "broken"

\* C20: once read_frame has returned a ProtocolViolation, no later call
\* returns a frame.
C20_ViolationIsFatal ==
    \A i, j \in 1..Len(rd_history) :
        (i < j /\ rd_history[i].kind = "violation") => rd_history[j].kind # "frame"

\* C21: the step that enters read_frame, before any stream read: if
\* consumed > 0 and length > capacity - CHUNK_SIZE, the prefix [0, consumed)
\* is drained, consumed becomes 0 and the unparsed bytes [consumed, length)
\* are the new buffer contents in their order; otherwise contents and consumed
\* stay as they are.  The stream is not touched by this step.
C21_CompactionRule ==
    [][ (pc = "idle" /\ pc' = "header") =>
            /\ incoming' = incoming
            /\ ~pending'
            /\ IF /\ read_consumed > 0
                  /\ Len(read_buffer.data) > read_buffer.cap - CHUNK_SIZE
               THEN /\ read_consumed' = 0
                    /\ read_buffer'.data =
                           SubSeq(read_buffer.data, read_consumed + 1,
                                  Len(read_buffer.data))
               ELSE /\ read_consumed' = read_consumed
                    /\ read_buffer'.data = read_buffer.data ]_vars

\* a call has compacted a buffer that held unparsed bytes behind a returned
\* frame: they are now at the front
C21_Witness ==
    /\ pc = "header" /\ ~pending
    /\ n_returned = 1
    /\ read_consumed = 0
    /\ Len(read_buffer.data) >= 2
    /\ read_buffer.data = SubSeq(PeerWire(<< peer_frames[2] >>), 1, Len(read_buffer.data))

\* the returned frame's data is the buffer range [consumed - L, consumed)
FrameViewInBuffer ==
    (pc = "idle" /\ rd_result.kind = "frame") =>
        LET L == Len(rd_result.data)
        IN  /\ L <= read_consumed
            /\ read_consumed <= Len(read_buffer.data)
            /\ rd_result.data =
                   SubSeq(read_buffer.data, read_consumed - L + 1, read_consumed)

\* while a frame is being parsed its header is still where it was read
HeaderStaysInBuffer ==
    pc \in {"ext16", "ext64", "payload"} =>
        /\ frame_start + HEADER_LEN <= Len(ReceiveBuffer.data)
        /\ SubSeq(ReceiveBuffer.data, frame_start + 1, frame_start + HEADER_LEN)
               = << b1, b2 >>

\* C22: the watermark goes down (the prefix is drained) only in the step that
\* enters read_frame, never between the parse of a header and the return of
\* the payload, so that a returned frame's data is the buffer range
\* [consumed - L, consumed).
C22_CompactionOnlyAtFrameBoundary ==
    /\ [](FrameViewInBuffer /\ HeaderStaysInBuffer)
    /\ [][ (read_consumed' < read_consumed \/
            (~pending /\ ~pending' /\ read_buffer'.data # read_buffer.data))
           => (pc = "idle" /\ pc' = "header") ]_vars

\* a second frame has been returned from behind the first, which is still in
\* the buffer, after a further read for its payload
C22_Witness ==
    /\ pc = "idle" /\ rd_result.kind = "frame"
    /\ n_returned = 2
    /\ frame_start > 0
    /\ read_since_hdr
    /\ Len(rd_result.data) = 3
    /\ read_consumed = Len(read_buffer.data)

\* total size, header and payload, of a frame of the stream
FrameSize(f) == Len(ServerFrame(f))

\* the largest frame among those returned and the one being read
LargestFrame ==
    LET upto == Min(n_returned + 1, Len(peer_frames))
        m[i \in 0..upto] ==
            IF i = 0 THEN 0 ELSE Max(m[i - 1], FrameSize(peer_frames[i]))
    IN  m[upto]

\* C23: on a stream of valid frames the receive buffer never holds more than
\* max(capacity, largest_frame + CHUNK_SIZE) bytes, capacity being the
\* configured read_buffer_capacity.
C23_ReceiveBufferBounded ==
    Len(ReceiveBuffer.data) <= Max(BulkCapacity, LargestFrame + CHUNK_SIZE)


\* the frames returned so far are the first frames of the stream
DeliveredFromStream ==
    /\ Len(rd_history) <= Len(peer_frames)
    /\ \A i \in 1..Len(rd_history) :
          rd_history[i] = Returned("frame", peer_frames[i].fin,
                                   peer_frames[i].opcode)
    /\ (rd_result.kind = "frame"
            => rd_result.data = peer_frames[n_returned].data)

\* every send that completed wrote the encoding of its own frame under the
\* key the generator gives for its position among the sends
SentFromCalls ==
    \E seed \in RngSeeds :
        \A k \in 1..Len(sent) :
            /\ sent[k].mask = RngOutput(RngAfter(seed, k - 1))
            /\ (sent[k].res = "ok" => sent[k].wrote = Wire(sent[k]))

\* C24: a step of a send leaves the receive buffer and the consumed
\* watermark as they are, and a step of read_frame leaves the scratch buffer
\* and the generator as they are; whatever sends are made between the calls
\* of read_frame, the frames it returns are the frames of the stream in
\* order, and whatever reads are made between the sends, each send writes
\* the encoding of its own frame under its own key.
C24_HalvesIndependent ==
    /\ [](~failed => DeliveredFromStream)
    /\ []SentFromCalls
    /\ [][ /\ (writeVars' # writeVars
                  => /\ read_buffer' = read_buffer
                     /\ read_consumed' = read_consumed
                     /\ taken' = taken)
           /\ (readVars' # readVars
                  => /\ write_buffer' = write_buffer
                     /\ write_rng' = write_rng
                     /\ dst' = dst) ]_vars

\* a send is in flight after the first frame was returned, with the bytes of
\* the second frame already in the receive buffer
C24_Witness ==
    /\ wpc = "writing"
    /\ pc = "idle" /\ rd_result.kind = "frame"
    /\ n_returned = 1
    /\ read_consumed < Len(read_buffer.data)
    /\ Len(dst.data) > 0


\* bytes of extended length that follow a header whose 7-bit field is l7
ExtLen(l7) == IF l7 = 126 THEN 2 ELSE IF l7 = 127 THEN 8 ELSE 0

\* the payload length a data frame at offset `at` of the buffer declares
DeclaredLength(buf, at) ==
    LET l7 == buf[at + 2] % 128
    IN  IF l7 = 126 THEN buf[at + 3] * 256 + buf[at + 4]
        ELSE IF l7 = 127
             THEN FromBeBytes(SubSeq(buf, at + 3, at + 6)) * 65536 * 65536
                  + FromBeBytes(SubSeq(buf, at + 7, at + 10))
        ELSE l7

\* C25: when read_frame returns a Continuation, Text or Binary frame, its
\* payload length is the 7-bit field when that is at most 125, the next 2
\* bytes big-endian when it is 126, the next 8 bytes big-endian when it is
\* 127, whether or not the encoding is the narrowest one; the data returned
\* is that many bytes, those that follow the length, and the watermark has
\* advanced by 2 + (0, 2 or 8) + that length.
C25_LengthDecoding ==
    (pc = "idle" /\ rd_result.kind = "frame"
        /\ rd_result.opcode \in {Continuation, Text, Binary}) =>
        LET buf == read_buffer.data
            ext == ExtLen(HdrLen(b2))
            L   == DeclaredLength(buf, frame_start)
        IN  /\ frame_start + 2 + ext <= Len(buf)
            /\ frame_start + 2 + ext + L <= Len(buf)
            /\ Len(rd_result.data) = L
            /\ rd_result.data = SubSeq(buf, frame_start + 2 + ext + 1,
                                       frame_start + 2 + ext + L)
            /\ read_consumed = frame_start + 2 + ext + L
            /\ (~failed => /\ n_returned <= Len(peer_frames)
                           /\ ext = peer_frames[n_returned].form
                           /\ L = Len(peer_frames[n_returned].data))

\* a 1-byte payload declared in the 8-byte form has been returned, from
\* behind a 3-byte payload declared in the 2-byte form
C25_Witness ==
    /\ pc = "idle" /\ rd_result.kind = "frame" /\ ~failed
    /\ rd_result.opcode = Binary
    /\ HdrLen(b2) = 127
    /\ rd_result.data = << 5 >>
    /\ n_returned = 2
    /\ peer_frames[1].form = 2
    /\ read_consumed = frame_start + 11


\* C26: the header is judged in the step that parses it: a header that
\* breaks a rule makes that step return the ProtocolViolation, with the
\* stream untouched and nothing but the 2 header bytes consumed, so
\* read_frame never waits for an extended length or a payload behind a
\* header that breaks a rule.
C26_ViolationBeforeFurtherReads ==
    /\ [](pc \in {"ext16", "ext64", "payload"} => ValidateHeader(b1, b2) = "")
    /\ [][ (pc = "header" /\ ~pending /\ ~pending' /\ pc' # "header"
               /\ ValidateHeader(read_buffer.data[read_consumed + 1],
                                 read_buffer.data[read_consumed + 2]) # "")
           => /\ pc' = "idle"
              /\ rd_result'.kind = "violation"
              /\ rd_result'.msg = ValidateHeader(b1', b2')
              /\ read_consumed' = read_consumed + HEADER_LEN
              /\ incoming' = incoming
              /\ read_buffer' = read_buffer ]_vars

\* a Ping header announcing an 8-byte length was the whole stream: the
\* violation has been returned with no read after the one that brought the
\* header
C26_Witness ==
    /\ pc = "idle" /\ rd_result.kind = "violation"
    /\ rd_result.msg = ControlLenMsg
    /\ HdrOpcode(b1) = Ping /\ HdrLen(b2) = 127
    /\ frame_start = 0 /\ read_consumed = HEADER_LEN
    /\ Len(read_buffer.data) = HEADER_LEN
    /\ incoming = << >>
    /\ ~eof_seen /\ ~read_since_hdr


\* C27: a stream read is issued only by an ensure_read(n) that finds fewer
\* than n unparsed bytes in the buffer, and the stream is touched by nothing
\* but such a read; so while the buffer holds the whole of the next frame of
\* the stream, read_frame is not waiting on the stream.
C27_ReadsOnlyWhenShort ==
    /\ [](pending => Len(taken.data) < read_consumed + Need)
    /\ []((pc # "idle" /\ ~failed /\ n_returned < Len(peer_frames)
              /\ Len(ReceiveBuffer.data)
                   >= frame_start + FrameSize(peer_frames[n_returned + 1]))
          => ~pending)
    /\ [][ /\ ((~pending /\ pending')
                  => (pc # "idle"
                      /\ Len(read_buffer.data) < read_consumed + Need))
           /\ (incoming' # incoming => pending) ]_vars

\* both frames of a stream have been returned after a single stream read (the
\* buffer, configured with 100 bytes, has grown once, to one chunk): the
\* second call found its frame in the buffer
C27_Witness ==
    /\ pc = "idle" /\ rd_result.kind = "frame" /\ ~failed
    /\ n_returned = 2
    /\ read_buffer.cap = CHUNK_SIZE
    /\ read_consumed = Len(read_buffer.data)
    /\ incoming = << >>
    /\ Len(rd_result.data) = 2


IsSuffix(a, b) ==
    Len(a) <= Len(b) /\ a = SubSeq(b, Len(b) - Len(a) + 1, Len(b))

\* C28: a stream read that fails, in whichever wait of read_frame, ends the
\* call with Error::Io and with the receive buffer back in the client as it
\* was handed to the read: the watermark is where it was and within the
\* buffer, the stream has lost nothing, and the buffer followed by what the
\* stream still holds is the tail of what the peer sent.
C28_IoErrorKeepsBuffer ==
    /\ []((pc = "idle" /\ rd_result.kind = "io")
             => /\ ~pending /\ taken = VecNew
                /\ 0 <= read_consumed
                /\ read_consumed <= Len(read_buffer.data)
                /\ (incoming # << >>
                       => IsSuffix(read_buffer.data \o incoming,
                                   PeerWire(peer_frames))))
    /\ [][ (pending /\ ~pending' /\ incoming' = incoming /\ ~eof_seen')
           => /\ pc' = "idle"
              /\ rd_result'.kind = "io"
              /\ read_buffer'.data = taken.data
              /\ read_consumed' = read_consumed ]_vars

\* the read for a payload has failed behind a 2-byte extended length: the
\* 4 bytes parsed and the part of the payload that had arrived are in the
\* buffer, the rest is still in the stream
C28_Witness ==
    /\ pc = "idle" /\ rd_result.kind = "io"
    /\ HdrLen(b2) = 126 /\ length = 3
    /\ read_since_hdr
    /\ read_consumed = frame_start + 4
    /\ Len(read_buffer.data) = read_consumed + 1
    /\ Len(incoming) >= 2


\* C29: for every length a peer declares in the 8-byte form, consumed +
\* length does not overflow the machine word where read_frame and
\* ensure_read compute it, no call ends in a panic, and a frame that is
\* returned has as many data bytes as were declared.
C29_LengthArithmeticFits ==
    /\ (pc = "payload" => ~EndIndex(length).overflow)
    /\ rd_result.kind # "panic"
    /\ (rd_result.kind = "frame" => WordOf(Len(rd_result.data)) = length)


EncFrame == Frame(enc_in.fin, enc_in.opcode, enc_in.data)

\* C31: for a payload of at most 125 bytes, whatever the FIN bit, the opcode,
\* the mask and the previous contents of dst, encode and encode_control leave
\* the same bytes in dst (and the same allocation): what one of them
\* produced is what the other produces from the same inputs.
C31_EncodersAgreeOnShortFrames ==
    Len(enc_in.data) <= 125 =>
        /\ (enc_out.by = "encode"
               => enc_out.vec = encode_control(EncFrame, enc_in.dst,
                                               enc_in.mask, cpu_simd))
        /\ (enc_out.by = "encode_control"
               => enc_out.vec = encode(EncFrame, enc_in.dst,
                                       enc_in.mask, cpu_simd))

\* a non-final Close frame of 5 bytes has gone through encode into a dst
\* that held 200 bytes, and encode_control gives the same 11 bytes
C31_Witness ==
    /\ enc_out.by = "encode"
    /\ ~enc_in.fin /\ enc_in.opcode = Close
    /\ Len(enc_in.data) = 5
    /\ Len(enc_in.dst.data) = 200
    /\ Len(enc_out.vec.data) = 11
    /\ enc_out.vec.data = encode_control(EncFrame, enc_in.dst, enc_in.mask,
                                         cpu_simd).data


\* C32: send_ping, send_pong and send_close called with a payload longer
\* than 125 bytes check nothing: each call draws its mask, encodes a frame
\* with FIN set and its own opcode through the general encoder and goes to
\* write_all; it ends with success or with the stream's I/O error, nothing
\* else, and on success it has written a control-opcode frame whose header
\* has the 2-byte or the 8-byte length (8 or 14 bytes with the mask).
C32_HelpersValidateNothing ==
    /\ [](\A k \in 1..Len(sent) :
             /\ sent[k].fin /\ ~sent[k].control
             /\ sent[k].opcode \in {Ping, Pong, Close}
             /\ sent[k].res \in {"pending", "ok", "io"}
             /\ (sent[k].res = "ok" =>
                    LET L == Len(sent[k].data)
                        w == sent[k].wrote
                    IN  /\ Len(w) = L + (IF L <= 65535 THEN 8 ELSE 14)
                        /\ w[1] = 128 + sent[k].opcode
                        /\ w[2] = (IF L <= 65535 THEN 254 ELSE 255)
                        /\ SubSeq(w, 3, IF L <= 65535 THEN 4 ELSE 10)
                              = ToBeBytes(L, IF L <= 65535 THEN 2 ELSE 8)
                        /\ (L <= 65535 => w = Wire(sent[k]))))
    /\ [](wr_result.kind \in {"none", "ok", "io"})
    /\ [][ /\ (Len(sent') > Len(sent)
                 => /\ wpc' = "writing"
                    /\ sent'[Len(sent')].res = "pending"
                    /\ Len(dst'.data) > 125 + CONTROL_HEADER_LEN)
           /\ ((wr_result'.kind = "io" /\ wr_result.kind # "io")
                 => wpc = "writing") ]_vars

\* send_close with 65536 bytes has written a Close frame with a 14-byte
\* header, and the call has returned Ok
C32_Witness ==
    /\ wpc = "idle" /\ wr_result.kind = "ok"
    /\ sent[Len(sent)].opcode = Close
    /\ Len(sent[Len(sent)].data) = 65536
    /\ sent[Len(sent)].res = "ok"
    /\ Len(sent[Len(sent)].wrote) = 65550
    /\ sent[Len(sent)].wrote[2] = 255
    /\ Len(outgoing) >= 65550

=============================================================================
